---- MODULE Spec2Model ----
(***************************************************************************)
(* DreamZero: the Dream Signal Extraction & Aggregation Engine.            *)
(*                                                                         *)
(* The model follows src/nlp_analyzer.py (DreamAnalyzer) and               *)
(* src/predictor.py (DreamPredictor).  Every operation of the two classes  *)
(* is an action that reads its argument from the state, computes the       *)
(* return value as the code computes it and stores it in `result`.         *)
(*                                                                         *)
(* Numbers.  Python floats with three decimals (sentiment, emotion scores, *)
(* stress) are integers counting thousandths; `round(x, 3)` of a quotient  *)
(* is RoundDiv, which rounds the exact quotient to the nearest integer,    *)
(* ties to even (the rule of Python's round).  Timestamps are integers     *)
(* counting hours; a calendar date is the timestamp \div 24.               *)
(*                                                                         *)
(* Optional values.  Python's None is the empty sequence, a present value  *)
(* v is <<v>>.                                                             *)
(***************************************************************************)
EXTENDS Integers, Sequences, FiniteSets, TLC

VARIABLES
    entries,    \* the list of DreamEntry rows handed to the core operations
    op,         \* the operation that ran last ("none": none since the list changed)
    arg,        \* its other argument: days_ahead of predict_mood_trend, the
                \* insights of _generate_recommendations, else None
    result,     \* what that operation returned
    analyzer,   \* the DreamAnalyzer instance: its lexicon attributes
    content,    \* the text handed to analyze_dream, as the fragments it was typed in
    estimators, \* what the two sentiment estimators answer for that text
    nlp_calls,  \* how often the operation that ran last called self.nlp
    previous,   \* what the call before it returned, when it was the same call
    predictor,  \* the DreamPredictor instance: its attribute self.model
    calls,      \* the invocations of predict_mood_trend running side by side
    store       \* the dream_entries table: the committed rows

vars == <<entries, op, arg, result, analyzer, content, estimators, nlp_calls,
          previous, predictor, calls, store>>

\* What the aggregator and the predictor never touch.
analyzerVars == <<analyzer, content, estimators, nlp_calls, previous>>

\* What only the invocations running side by side touch, and the table.
sharedVars == <<calls, store>>

----------------------------------------------------------------------------
(* Optional values and small arithmetic helpers *)

None == <<>>

Some(v) == <<v>>

IsNone(o) == o = <<>>

Val(o) == o[1]

\* Python truthiness of an optional number: None and 0 are both falsy.
Truthy(o) == o # None /\ Val(o) # 0

Abs(x) == IF x < 0 THEN -x ELSE x

Min(a, b) == IF a < b THEN a ELSE b

Max(a, b) == IF a > b THEN a ELSE b

\* round(n / d) for d > 0: nearest integer, ties to even.
RoundDiv(n, d) ==
    LET q == n \div d
        r == n % d
    IN  IF 2 * r < d THEN q
        ELSE IF 2 * r > d THEN q + 1
        ELSE IF q % 2 = 0 THEN q ELSE q + 1

RECURSIVE GCD(_, _)
GCD(a, b) == IF b = 0 THEN a ELSE GCD(b, a % b)

RECURSIVE SumSeq(_)
SumSeq(s) == IF s = <<>> THEN 0 ELSE Head(s) + SumSeq(Tail(s))

----------------------------------------------------------------------------
(* Program constants *)

\* The time unit is the hour.
HoursPerDay == 24

\* Thousandths per unit: three decimals.
Milli == 1000

----------------------------------------------------------------------------
(* DreamEntry rows (src/models.py), as far as the core reads them *)

\* Config.EMOTION_CATEGORIES, in declared order.
EMOTION_CATEGORIES ==
    <<"joy", "sadness", "fear", "anger", "surprise", "disgust", "trust", "anticipation">>

\* A stored emotions column: json.dumps of a dict, which keeps insertion order.
\* The dict is a sequence of <<name, score>> pairs.
EmotionDict(scores) ==
    [i \in 1..Len(EMOTION_CATEGORIES) |-> <<EMOTION_CATEGORIES[i], scores[i]>>]

DreamEntry(date, sentiment, emotions, themes, stress, quality) ==
    [dream_date |-> date, sentiment_score |-> sentiment, emotions |-> emotions,
     themes |-> themes, stress_level |-> stress, sleep_quality |-> quality]

\* What an operation returns when it returns None.
ReturnsNone == [kind |-> "None"]

\* What an operation leaves behind when it raises instead of returning.
Raises(e) == [kind |-> "raises", error |-> e]

\* The value of `result` while no operation has run on the current input.
NoResult == [kind |-> "none yet"]

----------------------------------------------------------------------------
(* Text: Python str operations on TLA+ strings *)

At(s, i) == SubSeq(s, i, i)

\* `keyword in text`: substring test.
Contains(text, keyword) ==
    \E i \in 1..(Len(text) - Len(keyword) + 1) :
        SubSeq(text, i, i + Len(keyword) - 1) = keyword

UPPERCASE == "ABCDEFGHIJKLMNOPQRSTUVWXYZ"

LOWERCASE == "abcdefghijklmnopqrstuvwxyz"

LowerChar(c) ==
    IF \E i \in 1..Len(UPPERCASE) : At(UPPERCASE, i) = c
    THEN At(LOWERCASE, CHOOSE i \in 1..Len(UPPERCASE) : At(UPPERCASE, i) = c)
    ELSE c

\* text.lower()
RECURSIVE Lower(_)
Lower(s) ==
    IF s = "" THEN ""
    ELSE IF Len(s) = 1 THEN LowerChar(s)
    ELSE Lower(SubSeq(s, 1, Len(s) \div 2)) \o Lower(SubSeq(s, Len(s) \div 2 + 1, Len(s)))

WHITESPACE == {" ", "\n", "\t"}

\* `not content or not content.strip()`: empty, or nothing but whitespace.
IsBlank(s) == \A i \in 1..Len(s) : At(s, i) \in WHITESPACE

\* text.count(c) for a single character c.
CountChar(s, c) == Cardinality({i \in 1..Len(s) : At(s, i) = c})

\* len(text.split()): the number of maximal runs of non-whitespace.
SplitCount(s) ==
    Cardinality({i \in 1..Len(s) :
                    /\ At(s, i) \notin WHITESPACE
                    /\ (i = 1 \/ At(s, i - 1) \in WHITESPACE)})

----------------------------------------------------------------------------
(* The linguistic-analysis capability, self.nlp (spaCy's en_core_web_sm, loaded
   in __init__), and the two sentiment estimators.  They are not code of the
   repository.  The capability is a fixed function of the text here: words
   are maximal runs of letters, every punctuation character is a token of
   its own, and stop words, nouns and named entities are those of the tables
   below.  The estimators' scores are part of the state (`estimators`). *)

PUNCTUATION == {"!", "?", ",", "."}

STOP_WORDS == {"i", "was", "so", "and", "the", "over", "a", "in", "to"}

NOUNS ==
    {"ocean", "house", "hill", "clouds", "teacher", "exam", "cat", "sun", "anna", "paris",
     "forest", "river", "door", "mirror", "window", "garden"}

\* ent.label_ of the names the capability recognises.
ENTITY_LABELS ==
    <<<<"Anna", "PERSON">>, <<"Paris", "GPE">>, <<"Google", "ORG">>, <<"Monday", "DATE">>>>

\* The character at i belongs to a word.
InWord(text, i) == At(text, i) \notin WHITESPACE /\ At(text, i) \notin PUNCTUATION

\* A token begins at i: at every punctuation character and at the first
\* character of every run of word characters.
TokenStart(text, i) ==
    \/ At(text, i) \in PUNCTUATION
    \/ InWord(text, i) /\ (i = 1 \/ ~InWord(text, i - 1))

\* The token that begins at i.
TokenAt(text, i) ==
    IF At(text, i) \in PUNCTUATION THEN At(text, i)
    ELSE SubSeq(text, i,
                CHOOSE j \in i..Len(text) :
                    /\ \A k \in i..j : InWord(text, k)
                    /\ (j = Len(text) \/ ~InWord(text, j + 1)))

\* The tokens that begin at the positions lo..hi, in order.
RECURSIVE TokensBetween(_, _, _)
TokensBetween(text, lo, hi) ==
    IF lo > hi THEN <<>>
    ELSE IF lo = hi
         THEN IF TokenStart(text, lo) THEN <<TokenAt(text, lo)>> ELSE <<>>
    ELSE TokensBetween(text, lo, (lo + hi) \div 2)
            \o TokensBetween(text, (lo + hi) \div 2 + 1, hi)

\* doc = self.nlp(text): the token texts, in order.
nlp(text) == TokensBetween(text, 1, Len(text))

is_punct(token) == token \in PUNCTUATION

is_stop(token) == Lower(token) \in STOP_WORDS

is_noun(token) == Lower(token) \in NOUNS

\* doc.ents: <<text, label>> for every token the capability labels.
Ents(doc) ==
    LET named == SelectSeq(doc, LAMBDA t:
                    \E k \in 1..Len(ENTITY_LABELS) : ENTITY_LABELS[k][1] = t)
    IN  [i \in 1..Len(named) |->
            <<named[i],
              ENTITY_LABELS[CHOOSE k \in 1..Len(ENTITY_LABELS) :
                                ENTITY_LABELS[k][1] = named[i]][2]>>]

----------------------------------------------------------------------------
(* DreamAnalyzer: the lexicons (src/nlp_analyzer.py 28-53, 166-180) *)

\* self.emotion_keywords as __init__ builds it: an insertion-ordered dict, kept
\* as a sequence of <<emotion, keywords>> pairs.
EMOTION_KEYWORDS ==
    <<<<"joy",
       <<"happy", "joyful", "excited", "delighted", "cheerful", "wonderful",
         "amazing", "love", "loved", "beautiful", "peaceful", "content">>>>,
     <<"sadness",
       <<"sad", "unhappy", "depressed", "lonely", "crying", "tears", "grief", "loss",
         "heartbroken", "miserable", "gloomy">>>>,
     <<"fear",
       <<"afraid", "scared", "terrified", "anxious", "worried", "panic", "nightmare",
         "horror", "frightened", "threatened", "danger">>>>,
     <<"anger",
       <<"angry", "mad", "furious", "rage", "frustrated", "irritated", "annoyed",
         "hostile", "aggressive", "violent">>>>,
     <<"surprise",
       <<"surprised", "shocked", "amazed", "astonished", "stunned", "unexpected",
         "sudden", "startled">>>>,
     <<"disgust",
       <<"disgusted", "revolted", "repulsed", "nasty", "gross", "horrible", "awful",
         "unpleasant">>>>,
     <<"trust",
       <<"trust", "safe", "secure", "comfortable", "protected", "confident",
         "reliable">>>>,
     <<"anticipation",
       <<"waiting", "expecting", "anticipating", "looking forward", "preparing",
         "ready", "hopeful">>>>>>

\* self.stress_keywords as __init__ builds it.
STRESS_KEYWORDS ==
    <<"chased", "running", "late", "test", "exam", "unprepared", "falling",
      "drowning", "trapped", "lost", "naked", "public", "teeth falling",
      "unable to move", "paralyzed", "screaming">>

\* common_themes, the local table of _identify_themes, in declaration order.
COMMON_THEMES ==
    <<<<"flying",
       <<"flying", "floating", "soaring", "air">>>>,
     <<"falling",
       <<"falling", "dropping", "plunging">>>>,
     <<"chase",
       <<"chased", "running from", "pursued", "escape">>>>,
     <<"water",
       <<"water", "ocean", "sea", "river", "swimming", "drowning">>>>,
     <<"death",
       <<"death", "dying", "dead", "funeral">>>>,
     <<"school",
       <<"school", "class", "teacher", "exam", "test">>>>,
     <<"work",
       <<"work", "office", "boss", "job", "meeting">>>>,
     <<"family",
       <<"family", "mother", "father", "parent", "sibling">>>>,
     <<"romance",
       <<"love", "kiss", "romantic", "date", "partner">>>>,
     <<"animals",
       <<"dog", "cat", "animal", "bird", "snake">>>>,
     <<"travel",
       <<"travel", "journey", "trip", "destination">>>>,
     <<"home",
       <<"home", "house", "room", "apartment">>>>>>

----------------------------------------------------------------------------
(* DreamAnalyzer.analyze_dream and its helpers (src/nlp_analyzer.py 55-247) *)

\* The instance attributes __init__ sets.
DreamAnalyzer ==
    [emotion_keywords |-> EMOTION_KEYWORDS, stress_keywords |-> STRESS_KEYWORDS]

\* The text of a content: its fragments, concatenated.
RECURSIVE Text(_)
Text(fragments) ==
    IF fragments = <<>> THEN "" ELSE Head(fragments) \o Text(Tail(fragments))

\* A slip: every occurrence of a keyword is counted.
Matches_occurrences(keywords, text_lower) ==
    SumSeq([k \in 1..Len(keywords) |->
              Cardinality({i \in 1..(Len(text_lower) - Len(keywords[k]) + 1) :
                             SubSeq(text_lower, i, i + Len(keywords[k]) - 1) = keywords[k]})])

\* sum(1 for keyword in keywords if keyword in text_lower)
Matches(keywords, text_lower) ==
    Cardinality({k \in 1..Len(keywords) : Contains(text_lower, keywords[k])})

\* (vader_compound + textblob_polarity) / 2, rounded to 3 decimals.
_analyze_sentiment(est) == RoundDiv(est.vader + est.textblob, 2)

\* len([token for token in doc if not token.is_stop and not token.is_punct]),
\* replaced by 1 when it is 0.
EmotionWordCount(text) ==
    LET n == Len(SelectSeq(nlp(text), LAMBDA t: ~is_stop(t) /\ ~is_punct(t)))
    IN  IF n = 0 THEN 1 ELSE n

\* The score without its cap at 1.0.
EmotionScore_uncapped(matches, word_count) ==
    RoundDiv(10 * matches * Milli, word_count)

\* round(min(matches / (word_count * 0.1), 1.0), 3)
EmotionScore(matches, word_count) ==
    IF 10 * matches >= word_count THEN Milli
    ELSE RoundDiv(10 * matches * Milli, word_count)

_detect_emotions(self, text) ==
    LET text_lower == Lower(text)
        word_count == EmotionWordCount(text)
        kw == self.emotion_keywords
    IN  [i \in 1..Len(kw) |->
            <<kw[i][1], EmotionScore(Matches(kw[i][2], text_lower), word_count)>>]

\* nouns[:10]
MaxSymbols == 10

\* The entities dict; list(set(...)) makes every value a set.
_extract_entities(text) ==
    LET doc == nlp(text)
        ents == Ents(doc)
        Labelled(labels) == {ents[i][1] : i \in {j \in 1..Len(ents) : ents[j][2] \in labels}}
        nouns == SelectSeq(doc, LAMBDA t: is_noun(t) /\ ~is_stop(t) /\ Len(t) > 3)
        first == SubSeq(nouns, 1, Min(MaxSymbols, Len(nouns)))
    IN  [people |-> Labelled({"PERSON"}),
         places |-> Labelled({"GPE", "LOC", "FAC"}),
         organizations |-> Labelled({"ORG"}),
         other |-> {ents[i][1] : i \in {j \in 1..Len(ents) :
                        ents[j][2] \notin {"PERSON", "GPE", "LOC", "FAC", "ORG"}}},
         symbols |-> {Lower(first[i]) : i \in 1..Len(first)}]

\* A slip: only the first keyword of each theme is looked for.
_identify_themes_first_keyword(text) ==
    LET text_lower == Lower(text)
        hit == SelectSeq(COMMON_THEMES, LAMBDA th: Contains(text_lower, th[2][1]))
    IN  [i \in 1..Len(hit) |-> hit[i][1]]

\* The themes, in the table's order, any of whose keywords occurs in the text.
_identify_themes(text) ==
    LET text_lower == Lower(text)
        hit == SelectSeq(COMMON_THEMES,
                         LAMBDA th: \E k \in 1..Len(th[2]) : Contains(text_lower, th[2][k]))
    IN  [i \in 1..Len(hit) |-> hit[i][1]]

\* min(word_count/500*0.3 + exclamations/10*0.2 + questions/10*0.1
\*     + emotion_intensity*0.4, 1.0), rounded to 3 decimals: in thousandths
\* the sum is (6*word_count + 200*exclamations + 100*questions
\*             + 4*sum(emotions)) / 10.
_calculate_intensity(text, emotions) ==
    LET tenths == 6 * SplitCount(text) + 200 * CountChar(text, "!")
                    + 100 * CountChar(text, "?")
                    + 4 * SumSeq([i \in 1..Len(emotions) |-> emotions[i][2]])
    IN  IF tenths >= 10 * Milli THEN Milli ELSE RoundDiv(tenths, 10)

\* min(stress_matches/5*0.6 + max(0, -sentiment)*0.4, 1.0), rounded to 3
\* decimals: in thousandths the sum is (600*stress_matches + 2*negative) / 5.
\* The sentiment is computed again from the same text.
\* A slip: the sentiment enters with its sign, max(0, ...) left out.
_detect_stress_signed(self, text, est) ==
    LET stress_matches == Cardinality({k \in 1..Len(self.stress_keywords) :
                                         Contains(Lower(text), self.stress_keywords[k])})
        fifths == 600 * stress_matches - 2 * _analyze_sentiment(est)
    IN  IF fifths >= 5 * Milli THEN Milli ELSE RoundDiv(fifths, 5)

_detect_stress(self, text, est) ==
    LET stress_matches == Matches(self.stress_keywords, Lower(text))
        negative_sentiment == Max(0, -_analyze_sentiment(est))
        fifths == 600 * stress_matches + 2 * negative_sentiment
    IN  IF fifths >= 5 * Milli THEN Milli ELSE RoundDiv(fifths, 5)

_empty_analysis ==
    [kind |-> "signal",
     sentiment_score |-> 0,
     emotions |-> [i \in 1..Len(EMOTION_CATEGORIES) |-> <<EMOTION_CATEGORIES[i], 0>>],
     entities |-> [people |-> {}, places |-> {}, organizations |-> {},
                   other |-> {}, symbols |-> {}],
     themes |-> <<>>,
     dream_intensity |-> 0,
     stress_level |-> 0]

\* "Perform all analyses": the dict analyze_dream builds for a text it
\* analyses.
Analysis(self, text, est) ==
    LET emotions == _detect_emotions(self, text)
    IN  [kind |-> "signal",
         sentiment_score |-> _analyze_sentiment(est),
         emotions |-> emotions,
         entities |-> _extract_entities(text),
         themes |-> _identify_themes(text),
         dream_intensity |-> _calculate_intensity(text, emotions),
         stress_level |-> _detect_stress(self, text, est)]

\* analyze_dream without its first two lines.
analyze_dream_unguarded(self, text, est) == Analysis(self, text, est)

\* The return value of analyze_dream(content).
analyze_dream(self, text, est) ==
    IF IsBlank(text) THEN _empty_analysis ELSE Analysis(self, text, est)

\* self.nlp(text) is called once each by _detect_emotions, _extract_entities
\* and _identify_themes, and not at all for a blank text.
NlpCalls(text) == IF IsBlank(text) THEN 0 ELSE 3

\* An instance that drops from its stress lexicon the cues a text matched.
AnalyzerAfter_consuming(self, text) ==
    [self EXCEPT !.stress_keywords =
        SelectSeq(@, LAMBDA k: ~Contains(Lower(text), k))]

\* The instance after analyze_dream: no attribute is assigned.
AnalyzerAfter(self, text) == self

----------------------------------------------------------------------------
(* DreamAnalyzer.generate_insights (src/nlp_analyzer.py 249-307) *)

\* sum(e.sentiment_score for e in entries if e.sentiment_score): the filter is
\* Python truthiness, so None and 0.0 are both left out of the sum.
SentimentSum(es) ==
    LET kept == SelectSeq(es, LAMBDA e: Truthy(e.sentiment_score))
    IN  SumSeq([i \in 1..Len(kept) |-> Val(kept[i].sentiment_score)])

\* avg_sentiment = <that sum> / total, total = len(entries); reported as
\* round(avg_sentiment, 3).
AvgSentiment(es) == RoundDiv(SentimentSum(es), Len(es))

\* all_emotions[emotion] = all_emotions.get(emotion, 0) + score, on an
\* insertion-ordered dict.
AddScore(acc, pair) ==
    IF \E i \in 1..Len(acc) : acc[i][1] = pair[1]
    THEN [i \in 1..Len(acc) |->
            IF acc[i][1] = pair[1] THEN <<acc[i][1], acc[i][2] + pair[2]>> ELSE acc[i]]
    ELSE Append(acc, pair)

RECURSIVE AddScores(_, _)
AddScores(acc, dict) ==
    IF dict = <<>> THEN acc ELSE AddScores(AddScore(acc, Head(dict)), Tail(dict))

\* The loop over the entries: an entry whose emotions column is None is skipped.
RECURSIVE AllEmotions(_, _)
AllEmotions(acc, es) ==
    IF es = <<>> THEN acc
    ELSE AllEmotions(IF IsNone(Head(es).emotions) THEN acc
                     ELSE AddScores(acc, Val(Head(es).emotions)),
                     Tail(es))

\* max(all_emotions.items(), key=lambda x: x[1])[0]: the first item, in dict
\* order, whose score no other exceeds; 'neutral' for the empty dict.
DominantEmotion(all) ==
    IF all = <<>> THEN "neutral"
    ELSE LET i == CHOOSE i \in 1..Len(all) :
                    /\ \A j \in 1..Len(all) : all[j][2] <= all[i][2]
                    /\ \A j \in 1..(i - 1) : all[j][2] < all[i][2]
         IN  all[i][1]

EmotionTotal(all) == SumSeq([i \in 1..Len(all) |-> all[i][2]])

\* A slip: each score is divided by the largest score instead of the total.
EmotionDistribution_byMax(all) ==
    LET top == CHOOSE m \in {all[i][2] : i \in 1..Len(all)} \cup {0} :
                   \A i \in 1..Len(all) : all[i][2] <= m
    IN  IF EmotionTotal(all) > 0
        THEN [i \in 1..Len(all) |-> <<all[i][1], RoundDiv(all[i][2] * Milli, top)>>]
        ELSE <<>>

\* {emotion: round(score / emotion_total, 3)} if emotion_total > 0 else {}
EmotionDistribution(all) ==
    IF EmotionTotal(all) > 0
    THEN [i \in 1..Len(all) |->
            <<all[i][1], RoundDiv(all[i][2] * Milli, EmotionTotal(all))>>]
    ELSE <<>>

\* all_themes.extend(json.loads(entry.themes)) for every entry with themes.
RECURSIVE AllThemes(_)
AllThemes(es) ==
    IF es = <<>> THEN <<>>
    ELSE (IF IsNone(Head(es).themes) THEN <<>> ELSE Val(Head(es).themes))
         \o AllThemes(Tail(es))

Count(x, s) == Cardinality({i \in 1..Len(s) : s[i] = x})

\* The keys of Counter(s), in first-seen order.
RECURSIVE Distinct(_)
Distinct(s) ==
    IF s = <<>> THEN <<>>
    ELSE LET front == SubSeq(s, 1, Len(s) - 1)
             last == s[Len(s)]
         IN  IF Count(last, front) > 0 THEN Distinct(front)
             ELSE Append(Distinct(front), last)

\* Counter(s).most_common(n): by decreasing count; the sort is stable, so keys
\* of equal count stay in first-seen order.
RECURSIVE SortByCount(_, _)
SortByCount(keys, s) ==
    IF keys = <<>> THEN <<>>
    ELSE LET i == CHOOSE i \in 1..Len(keys) :
                    /\ \A j \in 1..Len(keys) : Count(keys[j], s) <= Count(keys[i], s)
                    /\ \A j \in 1..(i - 1) : Count(keys[j], s) < Count(keys[i], s)
         IN  <<keys[i]>> \o
             SortByCount(SubSeq(keys, 1, i - 1) \o SubSeq(keys, i + 1, Len(keys)), s)

\* A slip: the keys are not sorted by count.
MostCommon_unsorted(s, n) ==
    SubSeq(Distinct(s), 1, Min(n, Len(Distinct(s))))

MostCommon(s, n) ==
    LET sorted == SortByCount(Distinct(s), s)
    IN  SubSeq(sorted, 1, Min(n, Len(sorted)))

\* recurring_themes takes the 5 most common.
TopThemes == 5

\* stress_levels = [e.stress_level for e in entries if e.stress_level is not None]
StressLevels(es) ==
    LET kept == SelectSeq(es, LAMBDA e: ~IsNone(e.stress_level))
    IN  [i \in 1..Len(kept) |-> Val(kept[i].stress_level)]

\* A slip: the first half takes the middle value of an odd count.
StressTrend_ceil(levels) ==
    LET n == Len(levels)
        h == (n + 1) \div 2
        s1 == SumSeq(SubSeq(levels, 1, h))
        s2 == SumSeq(SubSeq(levels, h + 1, n))
    IN  IF n >= 2
        THEN IF 10 * s2 * h > 11 * s1 * (n - h) THEN "increasing"
             ELSE IF 10 * s2 * h < 9 * s1 * (n - h) THEN "decreasing"
             ELSE "stable"
        ELSE "insufficient data"

\* first_half = sum(levels[:n//2]) / (n//2), second_half = sum(levels[n//2:]) / (n - n//2);
\* second_half > first_half * 1.1 and second_half < first_half * 0.9 are compared
\* as exact fractions, cleared of their denominators.
StressTrend(levels) ==
    LET n == Len(levels)
        h == n \div 2
        s1 == SumSeq(SubSeq(levels, 1, h))
        s2 == SumSeq(SubSeq(levels, h + 1, n))
    IN  IF n >= 2
        THEN IF 10 * s2 * h > 11 * s1 * (n - h) THEN "increasing"
             ELSE IF 10 * s2 * h < 9 * s1 * (n - h) THEN "decreasing"
             ELSE "stable"
        ELSE "insufficient data"

\* The dict generate_insights returns for a non-empty list (lines 257-307).
Insights(es) ==
    LET all == AllEmotions(<<>>, es)
    IN  [kind |-> "insights",
         total_entries |-> Len(es),
         avg_sentiment |-> Some(AvgSentiment(es)),
         dominant_emotion |-> DominantEmotion(all),
         emotion_distribution |-> EmotionDistribution(all),
         recurring_themes |-> MostCommon(AllThemes(es), TopThemes),
         stress_trend |-> StressTrend(StressLevels(es))]

\* A slip: the guard tests `entries is None`, so the empty list goes on to
\* divide by total = 0.
generate_insights_unguarded(es) ==
    IF es = <<>> THEN Raises("ZeroDivisionError") ELSE Insights(es)

\* The return value of generate_insights(entries): `if not entries: return None`.
generate_insights(es) ==
    IF es = <<>> THEN ReturnsNone ELSE Insights(es)

----------------------------------------------------------------------------
(* The DreamPredictor instance and the invocations that share it
   (src/predictor.py 16-17) *)

\* self.model = LinearRegression(): not fitted yet.
DreamPredictor == [model |-> None]

\* How many invocations run side by side on the one instance.
MaxCalls == 2

Threads == 1..MaxCalls

\* An invocation that has not started.
Idle == [pc |-> "idle"]

----------------------------------------------------------------------------
(* The aggregator's inputs and its specification *)

\* How many entries a list handed to generate_insights holds at most.
MaxAggEntries == 3

\* Sentiment columns: absent, exactly 0, and two nonzero scores.
AggSentiments == {None, Some(0), Some(600), Some(-300)}

\* Emotions columns: absent, the all-zero map of an empty text, and two maps
\* such as _detect_emotions produces.
AggEmotions ==
    {None,
     Some(EmotionDict(<<0, 0, 0, 0, 0, 0, 0, 0>>)),
     Some(EmotionDict(<<100, 100, 100, 0, 0, 0, 0, 0>>)),
     Some(EmotionDict(<<500, 0, 250, 0, 0, 0, 0, 0>>))}

Init ==
    /\ entries = <<>>
    /\ op = "none"
    /\ arg = None
    /\ result = NoResult
    /\ analyzer = DreamAnalyzer
    /\ content = <<>>
    /\ estimators = [vader |-> 0, textblob |-> 0]
    /\ nlp_calls = 0
    /\ previous = None
    /\ predictor = DreamPredictor
    /\ calls = [t \in Threads |-> Idle]
    /\ store = <<>>

\* The caller puts one more row into the list it will pass.
AddAggEntry ==
    /\ Len(entries) < MaxAggEntries
    /\ \E s \in AggSentiments, em \in AggEmotions :
         entries' = Append(entries, DreamEntry(0, s, em, None, None, None))
    /\ op' = "none"
    /\ arg' = None
    /\ result' = NoResult
    /\ UNCHANGED <<analyzerVars, predictor, sharedVars>>

\* analyzer.generate_insights(entries)
GenerateInsights ==
    /\ op' = "generate_insights"
    /\ arg' = None
    /\ result' = generate_insights(entries)
    /\ UNCHANGED <<entries, analyzerVars, predictor, sharedVars>>

NextAgg == AddAggEntry \/ GenerateInsights

SpecAgg == Init /\ [][NextAgg]_vars

----------------------------------------------------------------------------
(* DreamPredictor.predict_mood_trend (src/predictor.py 19-60) *)

\* `if len(entries) < 7: return None`
MinEntries == 7

\* `if len(dates) < 3: return None`
MinPoints == 3

\* predict_mood_trend(self, entries, days_ahead=7)
DefaultDaysAhead == 7

\* The confidence tiers: fewer than 14 points 'low', fewer than 30 'medium'.
MediumPoints == 14

HighPoints == 30

\* An entry whose dream_date is None carries this in place of a timestamp;
\* timestamps are hours counted from 0.
NoDate == -1

HasDate(e) == e.dream_date # NoDate

Dateless(es) == \E i \in 1..Len(es) : ~HasDate(es[i])

\* sorted(entries, key=lambda x: x.dream_date): stable, ascending.
RECURSIVE InsertByDate(_, _)
InsertByDate(sorted, e) ==
    IF sorted = <<>> THEN <<e>>
    ELSE IF sorted[Len(sorted)].dream_date <= e.dream_date THEN Append(sorted, e)
    ELSE Append(InsertByDate(SubSeq(sorted, 1, Len(sorted) - 1), e), sorted[Len(sorted)])

RECURSIVE SortByDate(_)
SortByDate(es) ==
    IF es = <<>> THEN <<>>
    ELSE InsertByDate(SortByDate(SubSeq(es, 1, Len(es) - 1)), es[Len(es)])

\* (a - b).days for two datetimes: whole days of the difference, rounded down.
DeltaDays(a, b) == (a - b) \div HoursPerDay

\* The entries that go into the fit: those, in date order, whose sentiment is
\* not None.
Qualifying(es) == SelectSeq(SortByDate(es), LAMBDA e: ~IsNone(e.sentiment_score))

\* dates: days_from_start = (entry.dream_date - entries[0].dream_date).days,
\* measured from the first entry of the list as it was passed.
Dates(es) ==
    LET q == Qualifying(es)
    IN  [i \in 1..Len(q) |-> DeltaDays(q[i].dream_date, es[1].dream_date)]

Sentiments(es) ==
    LET q == Qualifying(es)
    IN  [i \in 1..Len(q) |-> Val(q[i].sentiment_score)]

\* The least-squares line through (x[i], y[i]), i = 1..n, as LinearRegression
\* fits it: slope Sxy / Sxx with Sxx = n*sum(x^2) - sum(x)^2 and
\* Sxy = n*sum(x*y) - sum(x)*sum(y), through the point of means.  When every x
\* is the same (Sxx = 0) the least-norm solution has slope 0.  The value at
\* day d is num(d) / den with
\*     num(d) = sum(y) * Sxx + Sxy * (n*d - sum(x)),  den = n * Sxx
\* (Sxx taken as 1 when it is 0): predictions are kept as exact fractions
\* over the common denominator den > 0.
Sxx(x) ==
    Len(x) * SumSeq([i \in 1..Len(x) |-> x[i] * x[i]]) - SumSeq(x) * SumSeq(x)

Sxy(x, y) ==
    Len(x) * SumSeq([i \in 1..Len(x) |-> x[i] * y[i]]) - SumSeq(x) * SumSeq(y)

\* self.model after fit(X, y): coef_ and intercept_ as fractions over the
\* common denominator, so that the value at day d is
\* (intercept + coef * d) / denominator.
Fit(x, y) ==
    LET sxx == Sxx(x)
        sxy == Sxy(x, y)
    IN  [coef |-> IF sxx = 0 THEN 0 ELSE sxy * Len(x),
         intercept |-> IF sxx = 0 THEN SumSeq(y)
                       ELSE SumSeq(y) * sxx - sxy * SumSeq(x),
         denominator |-> Len(x) * (IF sxx = 0 THEN 1 ELSE sxx)]

\* model.predict at day d, as a numerator over model.denominator.
Predict(model, d) == model.intercept + model.coef * d

\* A slip: the comparison is turned around.
Trend_reversed(predictions) ==
    IF predictions[Len(predictions)] < predictions[1] THEN "improving" ELSE "declining"

\* 'improving' if predictions[-1] > predictions[0] else 'declining'
Trend(predictions) ==
    IF predictions[Len(predictions)] > predictions[1] THEN "improving" ELSE "declining"

Confidence(n) ==
    IF n < MediumPoints THEN "low" ELSE IF n < HighPoints THEN "medium" ELSE "high"

\* Lines 27-60, for a list of at least MinEntries entries.  sorted() at line
\* 31 compares the dream_dates before the try block is entered: a None among
\* them raises TypeError out of the call.  With days_ahead < 1 future_days is
\* empty and model.predict raises inside the try block: the except clause
\* returns None.
Forecast(es, days_ahead) ==
    LET x == Dates(es)
        y == Sentiments(es)
    IN  IF Dateless(es) THEN Raises("TypeError")
        ELSE IF Len(x) < MinPoints THEN ReturnsNone
        ELSE IF days_ahead < 1 THEN ReturnsNone
        ELSE LET model == Fit(x, y)
                 last_day == x[Len(x)]
                 future_days == [i \in 1..days_ahead |-> last_day + i]
                 predictions == [i \in 1..days_ahead |-> Predict(model, future_days[i])]
             IN  [kind |-> "forecast",
                  days |-> future_days,
                  predictions |-> predictions,
                  denominator |-> model.denominator,
                  trend |-> Trend(predictions),
                  confidence |-> Confidence(Len(x))]

\* A slip: the size test uses the number of points the fit needs.
predict_mood_trend_min3(es, days_ahead) ==
    IF Len(es) < MinPoints THEN ReturnsNone ELSE Forecast(es, days_ahead)

\* The return value of predict_mood_trend(entries, days_ahead).
predict_mood_trend(es, days_ahead) ==
    IF Len(es) < MinEntries THEN ReturnsNone ELSE Forecast(es, days_ahead)

\* The instance after predict_mood_trend(entries, days_ahead): self.model is
\* fitted once the two size tests are passed (line 45).
PredictorAfter(self, es) ==
    LET x == Dates(es)
        y == Sentiments(es)
    IN  IF Len(es) < MinEntries THEN self
        ELSE IF Dateless(es) THEN self
        ELSE IF Len(x) < MinPoints THEN self
        ELSE [self EXCEPT !.model = Some(Fit(x, y))]

----------------------------------------------------------------------------
(* The predictor's inputs and its specification *)

\* How many entries a list handed to predict_mood_trend holds at most.
MaxPredEntries == 7

\* The sentiment moves by 0.1 from one entry that has one to the next.
SentimentStep == 100

\* What the next entry is, relative to the one before it: the hours between
\* the two dream_dates (the same night or a day later), and whether its
\* sentiment is higher, lower or absent.
PredMoves ==
    {<<HoursPerDay, "up">>, <<1, "up">>, <<HoursPerDay, "down">>, <<1, "absent">>}

DaysAheadChoices == {0, 1, DefaultDaysAhead}

LastDate(es) == IF es = <<>> THEN 0 ELSE es[Len(es)].dream_date

LastSentiment(es) ==
    LET q == SelectSeq(es, LAMBDA e: ~IsNone(e.sentiment_score))
    IN  IF q = <<>> THEN 0 ELSE Val(q[Len(q)].sentiment_score)

NextSentiment(es, move) ==
    IF move = "absent" THEN None
    ELSE IF move = "up" THEN Some(LastSentiment(es) + SentimentStep)
    ELSE Some(LastSentiment(es) - SentimentStep)

AddPredEntry ==
    /\ Len(entries) < MaxPredEntries
    /\ \E m \in PredMoves :
         entries' = Append(entries,
                           DreamEntry(LastDate(entries) + m[1],
                                      NextSentiment(entries, m[2]),
                                      None, None, None, None))
    /\ op' = "none"
    /\ arg' = None
    /\ result' = NoResult
    /\ UNCHANGED <<analyzerVars, predictor, sharedVars>>

\* predictor.predict_mood_trend(entries, days_ahead): a request assembles its
\* list and calls once.
PredictMoodTrend ==
    \E days_ahead \in DaysAheadChoices :
        /\ op = "none"
        /\ op' = "predict_mood_trend"
        /\ arg' = Some(days_ahead)
        /\ result' = predict_mood_trend(entries, days_ahead)
        /\ predictor' = PredictorAfter(predictor, entries)
        /\ UNCHANGED <<entries, analyzerVars, sharedVars>>

NextPred == AddPredEntry \/ PredictMoodTrend

SpecPred == Init /\ [][NextPred]_vars

\* Lists in which entries may lack a timestamp or a sentiment: the i-th entry
\* is dated i days after the start, or has no dream_date.
SparseProfiles ==
    {<<TRUE, Some(SentimentStep)>>, <<TRUE, None>>, <<FALSE, Some(0)>>}

AddSparseEntry ==
    /\ Len(entries) < MaxPredEntries
    /\ \E p \in SparseProfiles :
         entries' = Append(entries,
                           DreamEntry(IF p[1] THEN HoursPerDay * Len(entries) ELSE NoDate,
                                      p[2], None, None, None, None))
    /\ op' = "none"
    /\ arg' = None
    /\ result' = NoResult
    /\ UNCHANGED <<analyzerVars, predictor, sharedVars>>

NextSparse == AddSparseEntry \/ PredictMoodTrend

SpecSparse == Init /\ [][NextSparse]_vars

\* Lists in any order: the i-th entry made is dated i days after the start
\* and goes to the back of the list (oldest first) or to its front (newest
\* first); an entry put in front may lack its sentiment.
OrderProfiles ==
    {<<"back", TRUE>>, <<"front", TRUE>>, <<"front", FALSE>>}

AddOrderEntry ==
    /\ Len(entries) < MaxPredEntries
    /\ \E p \in OrderProfiles :
         LET e == DreamEntry(HoursPerDay * Len(entries),
                             IF p[2] THEN Some(SentimentStep * Len(entries)) ELSE None,
                             None, None, None, None)
         IN  entries' = IF p[1] = "back" THEN Append(entries, e) ELSE <<e>> \o entries
    /\ op' = "none"
    /\ arg' = None
    /\ result' = NoResult
    /\ UNCHANGED <<analyzerVars, predictor, sharedVars>>

NextOrder == AddOrderEntry \/ PredictMoodTrend

SpecOrder == Init /\ [][NextOrder]_vars

----------------------------------------------------------------------------
(* DreamPredictor._analyze_cyclical_themes (src/predictor.py 194-235) *)

\* entry.dream_date.date(): the calendar day of a timestamp.
DateOf(t) == t \div HoursPerDay

\* theme_timeline[theme].append(date), on an insertion-ordered dict kept as a
\* sequence of <<theme, dates>> pairs.
AddDate(timeline, theme, date) ==
    IF \E i \in 1..Len(timeline) : timeline[i][1] = theme
    THEN [i \in 1..Len(timeline) |->
            IF timeline[i][1] = theme
            THEN <<theme, Append(timeline[i][2], date)>> ELSE timeline[i]]
    ELSE Append(timeline, <<theme, <<date>>>>)

RECURSIVE AddDates(_, _, _)
AddDates(timeline, themes, date) ==
    IF themes = <<>> THEN timeline
    ELSE AddDates(AddDate(timeline, Head(themes), date), Tail(themes), date)

\* The loop over sorted(entries, key=dream_date); entries without themes are
\* skipped.
RECURSIVE ThemeTimeline(_, _)
ThemeTimeline(timeline, sorted) ==
    IF sorted = <<>> THEN timeline
    ELSE ThemeTimeline(
            IF IsNone(Head(sorted).themes) THEN timeline
            ELSE AddDates(timeline, Val(Head(sorted).themes),
                          DateOf(Head(sorted).dream_date)),
            Tail(sorted))

\* intervals = [(dates[i+1] - dates[i]).days for i in range(len(dates)-1)]
Intervals(dates) == [i \in 1..(Len(dates) - 1) |-> dates[i + 1] - dates[i]]

\* A theme needs this many occurrences.
MinOccurrences == 3

\* variance < avg_interval * 0.5 with avg = S/n and
\* variance = sum((i - avg)^2)/n = (n*sum(i^2) - S^2)/n^2, cleared of
\* denominators: 2*(n*sum(i^2) - S^2) < n*S.
LowVariance(iv) ==
    LET n == Len(iv)
        S == SumSeq(iv)
        Q == SumSeq([k \in 1..n |-> iv[k] * iv[k]])
    IN  2 * (n * Q - S * S) < n * S

\* A slip: the test is turned around, and irregular themes are reported.
IsCyclical_reversed(dates) ==
    /\ Len(dates) >= MinOccurrences
    /\ ~LowVariance(Intervals(dates))

\* len(dates) >= 3 and variance < avg_interval * 0.5
IsCyclical(dates) ==
    /\ Len(dates) >= MinOccurrences
    /\ LowVariance(Intervals(dates))

\* The dict appended for a cyclical theme; round(avg_interval, 1) counts
\* tenths of a day.
CyclicalTheme(theme, dates) ==
    [theme |-> theme,
     avg_interval_days |-> RoundDiv(10 * SumSeq(Intervals(dates)), Len(dates) - 1),
     occurrences |-> Len(dates)]

\* The return value of _analyze_cyclical_themes(entries).
_analyze_cyclical_themes(es) ==
    LET timeline == ThemeTimeline(<<>>, SortByDate(es))
        found == SelectSeq(timeline, LAMBDA p: IsCyclical(p[2]))
        cyclical_themes == [i \in 1..Len(found) |-> CyclicalTheme(found[i][1], found[i][2])]
    IN  IF cyclical_themes # <<>>
        THEN [kind |-> "cyclical",
              themes |-> cyclical_themes,
              insight |-> <<cyclical_themes[1].theme, cyclical_themes[1].avg_interval_days>>]
        ELSE ReturnsNone

----------------------------------------------------------------------------
(* The cyclical-theme detector's inputs and its specification *)

\* How many entries a list handed to _analyze_cyclical_themes holds at most.
MaxCycEntries == 4

\* Days between one entry and the next.
CycGaps == {0, 1, 2, 10}

\* Themes columns: absent, one theme, two themes.
CycThemes == {None, Some(<<"flying">>), Some(<<"flying", "water">>)}

AddCycEntry ==
    /\ Len(entries) < MaxCycEntries
    /\ \E g \in CycGaps, th \in CycThemes :
         entries' = Append(entries,
                           DreamEntry(LastDate(entries) + g * HoursPerDay,
                                      None, None, th, None, None))
    /\ op' = "none"
    /\ arg' = None
    /\ result' = NoResult
    /\ UNCHANGED <<analyzerVars, predictor, sharedVars>>

\* self._analyze_cyclical_themes(entries), as identify_patterns calls it
AnalyzeCyclicalThemes ==
    /\ op = "none"
    /\ op' = "_analyze_cyclical_themes"
    /\ arg' = None
    /\ result' = _analyze_cyclical_themes(entries)
    /\ UNCHANGED <<entries, analyzerVars, predictor, sharedVars>>

NextCyc == AddCycEntry \/ AnalyzeCyclicalThemes

SpecCyc == Init /\ [][NextCyc]_vars

----------------------------------------------------------------------------
(* The signal extractor's inputs and its specification *)

\* How many fragments a text is typed in at most.
MaxFragments == 2

\* Fragments of dream text: whitespace only, punctuation only, stop words
\* around three emotion words, a named person in a flying dream that ends in a
\* question, six stress cues, and twelve plain words.
Fragments ==
    {" ",
     "!",
     "I was so Happy and sad and scared ",
     "Anna was flying over the ocean? ",
     "chased trapped screaming lost late naked ",
     "red cat sat big mat old oak fog hot sun dry pit "}

\* What SentimentIntensityAnalyzer.polarity_scores(text)['compound'] and
\* TextBlob(text).sentiment.polarity answer, in thousandths: both lie in
\* [-1, 1].
EstimatorAnswers ==
    {[vader |-> 0, textblob |-> 0],
     [vader |-> 700, textblob |-> 500],
     [vader |-> -400, textblob |-> 100],
     [vader |-> 1000, textblob |-> 1000],
     [vader |-> -1000, textblob |-> -1000]}

\* The user types one more fragment; the estimators' answers for the new text
\* are whatever they are.
WriteContent ==
    /\ Len(content) < MaxFragments
    /\ \E f \in Fragments, est \in EstimatorAnswers :
         /\ content' = Append(content, f)
         /\ estimators' = est
    /\ op' = "none"
    /\ arg' = None
    /\ result' = NoResult
    /\ nlp_calls' = 0
    /\ previous' = None
    /\ UNCHANGED <<entries, analyzer, predictor, sharedVars>>

\* analyzer.analyze_dream(content)
AnalyzeDream ==
    LET text == Text(content)
    IN  /\ op' = "analyze_dream"
        /\ arg' = None
        /\ result' = analyze_dream(analyzer, text, estimators)
        /\ nlp_calls' = NlpCalls(text)
        /\ analyzer' = AnalyzerAfter(analyzer, text)
        /\ previous' = IF op = "analyze_dream" THEN Some(result) ELSE None
        /\ UNCHANGED <<entries, content, estimators, predictor, sharedVars>>

NextExt == WriteContent \/ AnalyzeDream

SpecExt == Init /\ [][NextExt]_vars

\* Fragments of noun-rich text: six nouns the first of which comes back, six
\* further nouns, stop words and punctuation around a short and a capitalised
\* noun, three more nouns, one noun in three spellings, and two short nouns.
NounFragments ==
    {"ocean house hill clouds teacher ocean ",
     "exam anna paris forest river door ",
     "the cat sat in a Forest, ",
     "mirror window garden ",
     "Ocean OCEAN ocean ",
     "sun fog "}

\* The user types one more fragment; both estimators find the text neutral.
WriteNouns ==
    /\ Len(content) < MaxFragments
    /\ \E f \in NounFragments : content' = Append(content, f)
    /\ estimators' = [vader |-> 0, textblob |-> 0]
    /\ op' = "none"
    /\ arg' = None
    /\ result' = NoResult
    /\ nlp_calls' = 0
    /\ previous' = None
    /\ UNCHANGED <<entries, analyzer, predictor, sharedVars>>

NextSym == WriteNouns \/ AnalyzeDream

\* Fragments rich in lexicon keywords: a happy flying dream, a chase, a
\* keyword three times among fourteen words, a stress cue twice, a keyword
\* inside another word, and two-word cues in capitals.
KeywordFragments ==
    {"I was so happy and joyful flying over the ocean, amazing! ",
     "I was being chased and felt trapped, screaming ",
     "sad sad Sad dog ran far off one day by old red barn door ",
     "lost lost late ",
     "unhappy ",
     "Teeth Falling out, Unable To Move "}

\* A neutral, a positive and a wholly negative pair of estimator answers.
KeywordEstimators ==
    {[vader |-> 0, textblob |-> 0],
     [vader |-> 700, textblob |-> 500],
     [vader |-> -1000, textblob |-> -1000]}

WriteKeywords ==
    /\ Len(content) < MaxFragments
    /\ \E f \in KeywordFragments, est \in KeywordEstimators :
         /\ content' = Append(content, f)
         /\ estimators' = est
    /\ op' = "none"
    /\ arg' = None
    /\ result' = NoResult
    /\ nlp_calls' = 0
    /\ previous' = None
    /\ UNCHANGED <<entries, analyzer, predictor, sharedVars>>

NextLex == WriteKeywords \/ AnalyzeDream

SpecLex == Init /\ [][NextLex]_vars

SpecSym == Init /\ [][NextSym]_vars

----------------------------------------------------------------------------
(* _generate_recommendations (src/app.py 453-476) *)

NEGATIVE_SENTIMENT ==
    "Your dreams show negative sentiment. Consider stress-reduction practices before bed."

POSITIVE_SENTIMENT ==
    "Your dreams are predominantly positive. Keep up your good sleep hygiene!"

STRESS_INCREASING ==
    "Stress levels in your dreams are increasing. Try meditation or relaxation exercises."

FEAR_PROMINENT ==
    "Fear is prominent in your dreams. Consider journaling before bed to process anxieties."

SADNESS_THEMES ==
    "Notice sadness themes. Reach out to friends or consider speaking with a counselor."

BALANCED ==
    "Your dream patterns look balanced. Continue regular journaling for best insights."

\* The two thresholds on insights['avg_sentiment'], in thousandths.
NegativeBelow == -300

PositiveAbove == 300

\* ' '.join(recommendations)
RECURSIVE Join(_)
Join(strings) ==
    IF strings = <<>> THEN ""
    ELSE IF Len(strings) = 1 THEN strings[1]
    ELSE strings[1] \o " " \o Join(Tail(strings))

\* The list `recommendations` before the default is considered (lines 455-471).
RuleRecommendations(insights) ==
    (IF Val(insights.avg_sentiment) < NegativeBelow THEN <<NEGATIVE_SENTIMENT>>
     ELSE IF Val(insights.avg_sentiment) > PositiveAbove THEN <<POSITIVE_SENTIMENT>>
     ELSE <<>>)
    \o (IF insights.stress_trend = "increasing" THEN <<STRESS_INCREASING>> ELSE <<>>)
    \o (IF insights.dominant_emotion = "fear" THEN <<FEAR_PROMINENT>>
        ELSE IF insights.dominant_emotion = "sadness" THEN <<SADNESS_THEMES>>
        ELSE <<>>)

\* A slip: the emotion rule is an elif of the stress rule.
_generate_recommendations_elif(insights) ==
    LET recommendations ==
            (IF Val(insights.avg_sentiment) < NegativeBelow THEN <<NEGATIVE_SENTIMENT>>
             ELSE IF insights.dominant_emotion = "fear" THEN <<FEAR_PROMINENT>>
             ELSE <<>>)
    IN  [kind |-> "recommendations",
         text |-> Join(IF recommendations = <<>> THEN <<BALANCED>> ELSE recommendations)]

\* The return value of _generate_recommendations(insights).
_generate_recommendations(insights) ==
    LET recommendations == RuleRecommendations(insights)
    IN  [kind |-> "recommendations",
         text |-> Join(IF recommendations = <<>> THEN <<BALANCED>> ELSE recommendations)]

----------------------------------------------------------------------------
(* The recommendation rules' inputs and their specification *)

\* avg_sentiment values, in thousandths: on both thresholds and to either
\* side of them.
RecSentiments == {-500, -301, -300, 0, 300, 301}

RecTrends == {"increasing", "decreasing", "stable", "insufficient data"}

RecEmotions == {EMOTION_CATEGORIES[i] : i \in 1..Len(EMOTION_CATEGORIES)} \cup {"neutral"}

\* generate_summary has the insights of a period at hand.
ComputeInsights ==
    /\ \E a \in RecSentiments, t \in RecTrends, e \in RecEmotions :
         arg' = Some([kind |-> "insights", avg_sentiment |-> Some(a),
                      stress_trend |-> t, dominant_emotion |-> e])
    /\ op' = "none"
    /\ result' = NoResult
    /\ UNCHANGED <<entries, analyzerVars, predictor, sharedVars>>

\* _generate_recommendations(insights)
GenerateRecommendations ==
    /\ op = "none"
    /\ ~IsNone(arg)
    /\ op' = "_generate_recommendations"
    /\ result' = _generate_recommendations(Val(arg))
    /\ UNCHANGED <<arg, entries, analyzerVars, predictor, sharedVars>>

NextRec == ComputeInsights \/ GenerateRecommendations

SpecRec == Init /\ [][NextRec]_vars

----------------------------------------------------------------------------
(* DreamPredictor.generate_personalized_insights (src/predictor.py 237-299) *)

\* `if len(entries) < 5`
MinInsightEntries == 5

\* sorted(entries, key=...)[-7:]
RecentWindow == 7

\* The thresholds, in thousandths: recent_sentiment < -0.3 and > 0.3,
\* recent_stress > 0.6, a nightmare's sentiment < -0.5; nightmare_count >= 3;
\* frequency < 2 and > 5 dreams a week.
SentimentLow == -300

SentimentHigh == 300

StressHigh == 600

NightmareBelow == -500

NightmareCount == 3

FrequencyLow == 2

FrequencyHigh == 5

DaysPerWeek == 7

DIGITS == "0123456789"

\* str(n) for n >= 0, as the f-string formats nightmare_count.
RECURSIVE Str(_)
Str(n) ==
    IF n < 10 THEN At(DIGITS, n + 1) ELSE Str(n \div 10) \o At(DIGITS, (n % 10) + 1)

NeedMoreData ==
    [kind |-> "personalized",
     message |-> "Keep recording your dreams! We need more data to generate personalized insights.",
     tips |-> <<"Try to record dreams immediately upon waking",
                "Include as many details as possible",
                "Note your sleep quality and mood">>]

\* sorted(entries, key=lambda x: x.dream_date)[-7:]
RecentEntries(es) ==
    LET sorted == SortByDate(es)
    IN  SubSeq(sorted, Max(1, Len(sorted) - RecentWindow + 1), Len(sorted))

\* sum(e.stress_level for e in recent_entries if e.stress_level)
StressSum(es) ==
    LET kept == SelectSeq(es, LAMBDA e: Truthy(e.stress_level))
    IN  SumSeq([i \in 1..Len(kept) |-> Val(kept[i].stress_level)])

\* sum(1 for e in recent_entries if e.sentiment_score and e.sentiment_score < -0.5)
Nightmares(es) ==
    Len(SelectSeq(es, LAMBDA e: /\ Truthy(e.sentiment_score)
                                /\ Val(e.sentiment_score) < NightmareBelow))

\* max((entries[-1].dream_date - entries[0].dream_date).days, 1), on the list
\* as it was passed.
SpanDays(es) == Max(DeltaDays(es[Len(es)].dream_date, es[1].dream_date), 1)

\* What each rule appends to `insights` and to `recommendations`, in the
\* order of the code; frequency = len(entries) / span * 7 is compared
\* cleared of its denominator.
SentimentRule(recent) ==
    IF SentimentSum(recent) < SentimentLow * Len(recent)
    THEN [insights |-> <<"Your recent dreams show negative sentiment patterns">>,
          recommendations |-> <<"Consider stress-reduction techniques before bed",
                                "Try journaling worries before sleep">>]
    ELSE IF SentimentSum(recent) > SentimentHigh * Len(recent)
    THEN [insights |-> <<"Your recent dreams are predominantly positive!">>,
          recommendations |-> <<"Continue your current sleep routine">>]
    ELSE [insights |-> <<>>, recommendations |-> <<>>]

StressRule(recent) ==
    IF StressSum(recent) > StressHigh * Len(recent)
    THEN [insights |-> <<"High stress indicators detected in your dreams">>,
          recommendations |-> <<"Practice relaxation exercises before bed",
                                "Reduce screen time in the evening">>]
    ELSE [insights |-> <<>>, recommendations |-> <<>>]

NightmareRule(recent) ==
    IF Nightmares(recent) >= NightmareCount
    THEN [insights |-> <<"You've had " \o Str(Nightmares(recent))
                            \o " nightmares in the past week">>,
          recommendations |->
            <<"Consider speaking with a healthcare professional if nightmares persist">>]
    ELSE [insights |-> <<>>, recommendations |-> <<>>]

FrequencyRule(es) ==
    IF DaysPerWeek * Len(es) < FrequencyLow * SpanDays(es)
    THEN [insights |-> <<"You're recording dreams infrequently">>,
          recommendations |-> <<"Try setting a morning reminder to record dreams">>]
    ELSE IF DaysPerWeek * Len(es) > FrequencyHigh * SpanDays(es)
    THEN [insights |-> <<"Excellent dream recall! You're recording frequently">>,
          recommendations |-> <<"Your detailed records will provide rich insights">>]
    ELSE [insights |-> <<>>, recommendations |-> <<>>]

\* Lines 251-299.  avg_sentiment is the fraction num / den; dreams_per_week
\* is round(frequency, 1) in tenths; recent_stress is round(recent_stress, 2)
\* in hundredths.
PersonalizedInsights(es) ==
    LET recent == RecentEntries(es)
        rules == <<SentimentRule(recent), StressRule(recent),
                   NightmareRule(recent), FrequencyRule(es)>>
    IN  [kind |-> "personalized",
         insights |-> rules[1].insights \o rules[2].insights
                        \o rules[3].insights \o rules[4].insights,
         recommendations |-> rules[1].recommendations \o rules[2].recommendations
                               \o rules[3].recommendations \o rules[4].recommendations,
         stats |-> [total_dreams |-> Len(es),
                    avg_sentiment |-> [num |-> SentimentSum(es), den |-> Len(es)],
                    dreams_per_week |-> RoundDiv(DaysPerWeek * Len(es) * 10, SpanDays(es)),
                    recent_stress |-> RoundDiv(StressSum(recent), Len(recent) * 10)]]

\* A slip: the size test is `len(entries) < 4`.
generate_personalized_insights_min4(es) ==
    IF Len(es) < MinInsightEntries - 1 THEN NeedMoreData ELSE PersonalizedInsights(es)

\* The return value of generate_personalized_insights(entries).
generate_personalized_insights(es) ==
    IF Len(es) < MinInsightEntries THEN NeedMoreData ELSE PersonalizedInsights(es)

----------------------------------------------------------------------------
(* The insight composer's inputs and its specification *)

\* How many entries a list handed to generate_personalized_insights holds at
\* most.
MaxInsightEntries == 5

\* What the next entry is: the days since the entry before it, its sentiment
\* and its stress level.  A calm dream two days on, a nightmare two days on,
\* a pleasant dream the same day, a calm dream five days on, and a dream two
\* days on that was never analysed.
InsightMoves ==
    {<<2, Some(0), Some(0)>>,
     <<2, Some(-600), Some(700)>>,
     <<0, Some(600), Some(0)>>,
     <<5, Some(0), Some(0)>>,
     <<2, None, None>>}

AddInsightEntry ==
    /\ Len(entries) < MaxInsightEntries
    /\ \E m \in InsightMoves :
         entries' = Append(entries,
                           DreamEntry(LastDate(entries) + m[1] * HoursPerDay,
                                      m[2], None, None, m[3], None))
    /\ op' = "none"
    /\ arg' = None
    /\ result' = NoResult
    /\ UNCHANGED <<analyzerVars, predictor, sharedVars>>

\* predictor.generate_personalized_insights(entries)
GeneratePersonalizedInsights ==
    /\ op' = "generate_personalized_insights"
    /\ arg' = None
    /\ result' = generate_personalized_insights(entries)
    /\ UNCHANGED <<entries, analyzerVars, predictor, sharedVars>>

NextIns == AddInsightEntry \/ GeneratePersonalizedInsights

SpecIns == Init /\ [][NextIns]_vars

\* Lists in any order for the frequency rule: each new entry is dated a day
\* or a week after the latest one so far and goes to the back of the list
\* (oldest first) or to its front (newest first).
FrequencyGaps == {1, 7}

Placements == {"back", "front"}

RECURSIVE LatestDate(_)
LatestDate(es) ==
    IF es = <<>> THEN 0 ELSE Max(Head(es).dream_date, LatestDate(Tail(es)))

AddFrequencyEntry ==
    /\ Len(entries) < MaxInsightEntries
    /\ \E gap \in FrequencyGaps, place \in Placements :
         LET e == DreamEntry(LatestDate(entries) + gap * HoursPerDay,
                             Some(0), None, None, Some(0), None)
         IN  entries' = IF place = "back" THEN Append(entries, e) ELSE <<e>> \o entries
    /\ op' = "none"
    /\ arg' = None
    /\ result' = NoResult
    /\ UNCHANGED <<analyzerVars, predictor, sharedVars>>

NextFreq == AddFrequencyEntry \/ GeneratePersonalizedInsights

SpecFreq == Init /\ [][NextFreq]_vars

----------------------------------------------------------------------------
(* create_entry and update_entry (src/app.py 77-145) *)

\* analyze_dream when self.nlp may fail: the first helper that calls it on a
\* text that is not blank raises, and nothing in analyze_dream catches it.
analyze_dream_or_raise(self, text, est, nlp_up) ==
    IF IsBlank(text) THEN _empty_analysis
    ELSE IF ~nlp_up THEN Raises("nlp")
    ELSE Analysis(self, text, est)

\* A request body with the keys the model follows: content and title, each
\* present or not.  A body with neither is the empty dict.
Body(text, title) == [content |-> text, title |-> title]

EmptyBody == Body(None, None)

\* A row of dream_entries as the two handlers write it; the columns emotions,
\* entities and themes hold what json.dumps was given.
Row(title, text, analysis) ==
    [title |-> title,
     content |-> text,
     sentiment_score |-> analysis.sentiment_score,
     emotions |-> analysis.emotions,
     entities |-> analysis.entities,
     themes |-> analysis.themes,
     dream_intensity |-> analysis.dream_intensity,
     stress_level |-> analysis.stress_level]

\* jsonify({'error': ...}), status
ErrorResponse(status) == [kind |-> "error", status |-> status]

\* jsonify(entry.to_dict()), status
EntryResponse(row, status) == [kind |-> "entry", status |-> status, entry |-> row]

\* db.session.commit() with the row added or changed in the session.
Commit(table, i, row) ==
    IF i > Len(table) THEN Append(table, row) ELSE [table EXCEPT ![i] = row]

\* A slip: the handler catches the failure and commits what it has.
Discard_committing(table, i, row) == Commit(table, i, row)

\* The request ends in an exception before db.session.commit(): the row the
\* session holds is dropped with the session.
Discard(table, i, row) == table

\* What is left at the id of a deleted row that is not the last one: the
\* table is a sequence indexed by id.
Deleted == [deleted |-> TRUE]

\* DreamEntry.query.get_or_404(entry_id) finds a row.
Found(table, entry_id) == entry_id \in DOMAIN table /\ table[entry_id] # Deleted

\* db.session.delete(entry); db.session.commit().  The ids after the last
\* row left are free again, as in the default SQLite table.
RECURSIVE DropFreeIds(_)
DropFreeIds(table) ==
    IF table # <<>> /\ table[Len(table)] = Deleted
    THEN DropFreeIds(SubSeq(table, 1, Len(table) - 1))
    ELSE table

Delete(table, i) == DropFreeIds([table EXCEPT ![i] = Deleted])

\* jsonify({'message': ...})
MessageResponse(message) == [kind |-> "message", status |-> 200, message |-> message]

\* What create_entry does to the table and answers, for the body of the
\* request.
create_entry(table, self, data, est, nlp_up) ==
    IF data = EmptyBody \/ IsNone(data.content) \/ Val(data.content) = ""
    THEN [table |-> table, response |-> ErrorResponse(400)]
    ELSE LET analysis == analyze_dream_or_raise(self, Val(data.content), est, nlp_up)
             entry == Row(data.title, Val(data.content), analysis)
         IN  IF analysis.kind = "raises"
             THEN [table |-> table, response |-> analysis]
             ELSE [table |-> Commit(table, Len(table) + 1, entry),
                   response |-> EntryResponse(entry, 201)]

\* An update that stores the new content and leaves the analysis results of
\* the old content in place.
update_entry_stale(table, self, entry_id, data, est, nlp_up) ==
    IF ~Found(table, entry_id)
    THEN [table |-> table, response |-> ErrorResponse(404)]
    ELSE IF data = EmptyBody
    THEN [table |-> table, response |-> ErrorResponse(400)]
    ELSE LET titled == IF IsNone(data.title) THEN table[entry_id]
                       ELSE [table[entry_id] EXCEPT !.title = data.title]
             entry == IF IsNone(data.content) THEN titled
                      ELSE [titled EXCEPT !.content = Val(data.content)]
         IN  [table |-> Commit(table, entry_id, entry),
              response |-> EntryResponse(entry, 200)]

\* What update_entry does for entry_id and the body of the request.
\* entry.title and entry.content are assigned before the analysis runs; a
\* body without content leaves the six analysis columns alone.
update_entry(table, self, entry_id, data, est, nlp_up) ==
    IF ~Found(table, entry_id)
    THEN [table |-> table, response |-> ErrorResponse(404)]
    ELSE IF data = EmptyBody
    THEN [table |-> table, response |-> ErrorResponse(400)]
    ELSE LET titled == IF IsNone(data.title) THEN table[entry_id]
                       ELSE [table[entry_id] EXCEPT !.title = data.title]
         IN  IF IsNone(data.content)
             THEN [table |-> Commit(table, entry_id, titled),
                   response |-> EntryResponse(titled, 200)]
             ELSE LET entry == [titled EXCEPT !.content = Val(data.content)]
                      analysis == analyze_dream_or_raise(self, Val(data.content), est, nlp_up)
                      analysed == Row(titled.title, Val(data.content), analysis)
                  IN  IF analysis.kind = "raises"
                      THEN [table |-> Discard(table, entry_id, entry), response |-> analysis]
                      ELSE [table |-> Commit(table, entry_id, analysed),
                            response |-> EntryResponse(analysed, 200)]

\* What delete_entry does for entry_id.
delete_entry(table, entry_id) ==
    IF ~Found(table, entry_id)
    THEN [table |-> table, response |-> ErrorResponse(404)]
    ELSE [table |-> Delete(table, entry_id),
          response |-> MessageResponse("Entry deleted successfully")]

----------------------------------------------------------------------------
(* The two handlers' inputs and their specification *)

\* How many rows the table holds at most.
MaxStored == 2

\* The content of a request body: none, the empty string, whitespace, and
\* two short dreams.
RequestContents ==
    {None, Some(""), Some(" "), Some("lost"), Some("Happy Anna")}

\* POST /api/entries.  arg records the request: its content and whether
\* self.nlp answers while it is served.
CreateEntry ==
    \E data \in RequestContents, nlp_up \in BOOLEAN :
        LET done == create_entry(store, analyzer, Body(data, None), estimators, nlp_up)
        IN  /\ Len(store) < MaxStored
            /\ op' = "create_entry"
            /\ arg' = Some([content |-> data, nlp_up |-> nlp_up])
            /\ store' = done.table
            /\ result' = done.response
            /\ UNCHANGED <<entries, analyzerVars, predictor, calls>>

\* PUT /api/entries/<entry_id>
UpdateEntry ==
    \E entry_id \in 1..MaxStored, data \in RequestContents, nlp_up \in BOOLEAN :
        LET done == update_entry(store, analyzer, entry_id, Body(data, None), estimators, nlp_up)
        IN  /\ op' = "update_entry"
            /\ arg' = Some([content |-> data, nlp_up |-> nlp_up, entry_id |-> entry_id])
            /\ store' = done.table
            /\ result' = done.response
            /\ UNCHANGED <<entries, analyzerVars, predictor, calls>>

NextApp == CreateEntry \/ UpdateEntry

SpecApp == Init /\ [][NextApp]_vars

\* Requests that may also carry a title, and deletions, served while
\* self.nlp answers.  The two sentiment
\* estimators answer by the text alone: what they say of the two dreams, and
\* zero of anything else.
Estimates(text) ==
    IF text = "Happy Anna" THEN [vader |-> 572, textblob |-> 800]
    ELSE IF text = "lost" THEN [vader |-> -318, textblob |-> 0]
    ELSE [vader |-> 0, textblob |-> 0]

\* The bodies: the empty dict, a title alone, a content alone (a dream, the
\* other dream, the empty string), and a content with a title.
RequestBodies ==
    {EmptyBody,
     Body(None, Some("Night")),
     Body(Some("lost"), None),
     Body(Some("Happy Anna"), None),
     Body(Some(""), None),
     Body(Some("lost"), Some("Night"))}

EstimatesFor(data) == Estimates(IF IsNone(data.content) THEN "" ELSE Val(data.content))

\* POST /api/entries
PostEntry ==
    /\ Len(store) < MaxStored
    /\ \E data \in RequestBodies :
        \E done \in {create_entry(store, analyzer, data, EstimatesFor(data), TRUE)} :
            /\ op' = "create_entry"
            /\ arg' = Some([body |-> data])
            /\ store' = done.table
            /\ result' = done.response
            /\ UNCHANGED <<entries, analyzerVars, predictor, calls>>

\* PUT /api/entries/<entry_id>
PutEntry ==
    \E entry_id \in 1..MaxStored, data \in RequestBodies :
        \E done \in {update_entry(store, analyzer, entry_id, data, EstimatesFor(data), TRUE)} :
            /\ op' = "update_entry"
            /\ arg' = Some([body |-> data, entry_id |-> entry_id])
            /\ store' = done.table
            /\ result' = done.response
            /\ UNCHANGED <<entries, analyzerVars, predictor, calls>>

\* DELETE /api/entries/<entry_id>
DeleteEntry ==
    \E entry_id \in 1..MaxStored :
        LET done == delete_entry(store, entry_id)
        IN  /\ op' = "delete_entry"
            /\ arg' = Some([entry_id |-> entry_id])
            /\ store' = done.table
            /\ result' = done.response
            /\ UNCHANGED <<entries, analyzerVars, predictor, calls>>

NextStore == PostEntry \/ PutEntry \/ DeleteEntry

SpecStore == Init /\ [][NextStore]_vars

----------------------------------------------------------------------------
(* predict_mood_trend called from several threads on one DreamPredictor
   (src/predictor.py 16-17, 19-60).  A call prepares its data in locals, then
   fits self.model (line 45), then reads self.model to predict (line 50). *)

\* A week of daily entries whose sentiment moves by `step` a day.
Series(step) ==
    [i \in 1..MinEntries |->
        DreamEntry((i - 1) * HoursPerDay, Some((i - 1) * step), None, None, None, None)]

\* The entry sets the callers pass: a rising, a falling and a level week.
SeriesSteps == {SentimentStep, -SentimentStep, 0}

\* Lines 24-42: the call is entered and its data prepared.
Begin(t) ==
    /\ calls[t].pc = "idle"
    /\ \E step \in SeriesSteps :
         calls' = [calls EXCEPT ![t] =
                     [pc |-> "fit", entries |-> Series(step),
                      days_ahead |-> DefaultDaysAhead]]
    /\ UNCHANGED <<entries, op, arg, result, analyzerVars, predictor, store>>

\* Line 45: self.model.fit(X, y)
FitStep(t) ==
    /\ calls[t].pc = "fit"
    /\ predictor' = [predictor EXCEPT !.model =
                        Some(Fit(Dates(calls[t].entries), Sentiments(calls[t].entries)))]
    /\ calls' = [calls EXCEPT ![t].pc = "predict"]
    /\ UNCHANGED <<entries, op, arg, result, analyzerVars, store>>

\* Lines 48-57: the forecast built from what self.model holds now.
ForecastFrom(model, es, days_ahead) ==
    LET x == Dates(es)
        last_day == x[Len(x)]
        future_days == [i \in 1..days_ahead |-> last_day + i]
        predictions == [i \in 1..days_ahead |-> Predict(model, future_days[i])]
    IN  [kind |-> "forecast",
         days |-> future_days,
         predictions |-> predictions,
         denominator |-> model.denominator,
         trend |-> Trend(predictions),
         confidence |-> Confidence(Len(x))]

PredictStep(t) ==
    /\ calls[t].pc = "predict"
    /\ calls' = [calls EXCEPT ![t] =
                    [pc |-> "done", entries |-> calls[t].entries,
                     days_ahead |-> calls[t].days_ahead,
                     result |-> ForecastFrom(Val(predictor.model), calls[t].entries,
                                             calls[t].days_ahead)]]
    /\ UNCHANGED <<entries, op, arg, result, analyzerVars, predictor, store>>

NextConc == \E t \in Threads : Begin(t) \/ FitStep(t) \/ PredictStep(t)

SpecConc == Init /\ [][NextConc]_vars

----------------------------------------------------------------------------
(* generate_insights on emotion maps and stress levels: two more sets of
   inputs for the aggregator (src/nlp_analyzer.py 260-269, 285-298) *)

\* Emotions columns: absent; joy and fear level at 0.5 and sadness at 0.2, keys
\* in the order analyze_dream writes them; sadness alone at 0.3; and a stored
\* map with the same keys whose first key is fear, level with joy at 0.5.
DomEmotions ==
    {None,
     Some(EmotionDict(<<500, 200, 500, 0, 0, 0, 0, 0>>)),
     Some(EmotionDict(<<0, 300, 0, 0, 0, 0, 0, 0>>)),
     Some(<<<<"fear", 500>>, <<"joy", 500>>, <<"sadness", 0>>, <<"anger", 0>>,
            <<"surprise", 0>>, <<"disgust", 0>>, <<"trust", 0>>, <<"anticipation", 0>>>>)}

AddDomEntry ==
    /\ Len(entries) < MaxAggEntries
    /\ \E em \in DomEmotions :
         entries' = Append(entries, DreamEntry(0, None, em, None, None, None))
    /\ op' = "none"
    /\ arg' = None
    /\ result' = NoResult
    /\ UNCHANGED <<analyzerVars, predictor, sharedVars>>

NextDom == AddDomEntry \/ GenerateInsights

SpecDom == Init /\ [][NextDom]_vars

\* Stress columns: absent, 0, and three levels around 0.5.
StressValues == {None, Some(0), Some(500), Some(560), Some(440)}

AddStressEntry ==
    /\ Len(entries) < MaxAggEntries
    /\ \E st \in StressValues :
         entries' = Append(entries, DreamEntry(0, None, None, None, st, None))
    /\ op' = "none"
    /\ arg' = None
    /\ result' = NoResult
    /\ UNCHANGED <<analyzerVars, predictor, sharedVars>>

NextStress == AddStressEntry \/ GenerateInsights

SpecStress == Init /\ [][NextStress]_vars

\* Themes columns: absent, the empty list, and four lists such as
\* _identify_themes produces, six themes between them.
ThemeLists ==
    {None,
     Some(<<>>),
     Some(<<"flying", "water">>),
     Some(<<"chase", "water", "school">>),
     Some(<<"water", "work", "home">>),
     Some(<<"animals", "home">>)}

AddThemeEntry ==
    /\ Len(entries) < MaxAggEntries
    /\ \E th \in ThemeLists :
         entries' = Append(entries, DreamEntry(0, Some(0), None, th, None, None))
    /\ op' = "none"
    /\ arg' = None
    /\ result' = NoResult
    /\ UNCHANGED <<analyzerVars, predictor, sharedVars>>

NextThemes == AddThemeEntry \/ GenerateInsights

SpecThemes == Init /\ [][NextThemes]_vars

----------------------------------------------------------------------------
(* DreamPredictor.identify_patterns and the sub-analyses
   (src/predictor.py 62-192).  Timestamps count hours from a Monday 00:00. *)

\* entry.dream_date.hour
HourOf(t) == t % HoursPerDay

\* `if hour < 12`
Noon == 12

\* entry.dream_date.weekday(): Monday is 0.
Weekday(t) == DateOf(t) % DaysPerWeek

days_names ==
    <<"Monday", "Tuesday", "Wednesday", "Thursday", "Friday", "Saturday", "Sunday">>

\* The sentiment columns of some entries, None included.
Scores(es) == [i \in 1..Len(es) |-> es[i].sentiment_score]

\* sum(scores) for a list without None.
Total(scores) == SumSeq([i \in 1..Len(scores) |-> Val(scores[i])])

\* A mean kept as the fraction num / den, den > 0.
Mean(scores) == [num |-> Total(scores), den |-> Len(scores)]

\* a > b and a < b for two such fractions.
Greater(a, b) == a.num * b.den > b.num * a.den

Less(a, b) == a.num * b.den < b.num * a.den

\* Lines 77-99.  entry.sentiment_score is appended whether or not it is
\* None; sum() over a list that holds a None raises TypeError.
_analyze_time_patterns(es) ==
    LET morning_dreams == Scores(SelectSeq(es, LAMBDA e: HourOf(e.dream_date) < Noon))
        evening_dreams == Scores(SelectSeq(es, LAMBDA e: HourOf(e.dream_date) >= Noon))
    IN  IF morning_dreams # <<>> /\ evening_dreams # <<>>
        THEN IF \E i \in 1..Len(morning_dreams) : IsNone(morning_dreams[i])
             THEN Raises("TypeError")
             ELSE IF \E i \in 1..Len(evening_dreams) : IsNone(evening_dreams[i])
             THEN Raises("TypeError")
             ELSE [kind |-> "time_of_day",
                   morning_avg |-> Mean(morning_dreams),
                   evening_avg |-> Mean(evening_dreams),
                   insight |-> IF Greater(Mean(morning_dreams), Mean(evening_dreams))
                               THEN "Morning dreams tend to be more positive"
                               ELSE "Evening dreams tend to be more positive"]
        ELSE ReturnsNone

\* day_sentiments[day]: the sentiments, None left out, of the entries of a
\* weekday.
DaySentiments(es, day) ==
    Scores(SelectSeq(es, LAMBDA e: Weekday(e.dream_date) = day /\ ~IsNone(e.sentiment_score)))

\* Lines 101-130.  max and min over valid_days.items() keep the first of
\* several equal averages, in the order Monday..Sunday.
_analyze_day_patterns(es) ==
    LET valid_days == {day \in 0..(DaysPerWeek - 1) : DaySentiments(es, day) # <<>>}
        avg(day) == Mean(DaySentiments(es, day))
        best_day == CHOOSE b \in valid_days :
                        /\ \A o \in valid_days : ~Greater(avg(o), avg(b))
                        /\ \A o \in valid_days : o < b => Less(avg(o), avg(b))
        worst_day == CHOOSE w \in valid_days :
                        /\ \A o \in valid_days : ~Less(avg(o), avg(w))
                        /\ \A o \in valid_days : o < w => Greater(avg(o), avg(w))
    IN  IF valid_days = {} THEN ReturnsNone
        ELSE [kind |-> "day_of_week",
              best_day |-> days_names[best_day + 1],
              best_score |-> avg(best_day),
              worst_day |-> days_names[worst_day + 1],
              worst_score |-> avg(worst_day),
              insight |-> "Dreams on " \o days_names[best_day + 1]
                            \o " tend to be most positive"]

\* The emotion names in the order sorted() puts them.
ALPHABETICAL ==
    <<"anger", "anticipation", "disgust", "fear", "joy", "sadness", "surprise", "trust">>

Rank(name) == CHOOSE k \in 1..Len(ALPHABETICAL) : ALPHABETICAL[k] = name

\* `top_emotions[1][1] > 0.1`, in thousandths.
PairThreshold == 100

\* most_common(3)
TopPairs == 3

\* The first item, in dict order, whose score no other exceeds: what a stable
\* descending sort puts first.
FirstMax(dict) ==
    CHOOSE i \in 1..Len(dict) :
        /\ \A j \in 1..Len(dict) : dict[j][2] <= dict[i][2]
        /\ \A j \in 1..(i - 1) : dict[j][2] < dict[i][2]

\* The entry's two highest emotions in score order, the names left unsorted.
EmotionPair_unsorted(dict) ==
    IF Len(dict) < 2 THEN <<>>
    ELSE LET i == FirstMax(dict)
             rest == SubSeq(dict, 1, i - 1) \o SubSeq(dict, i + 1, Len(dict))
             second == rest[FirstMax(rest)]
         IN  IF second[2] > PairThreshold THEN <<<<dict[i][1], second[1]>>>> ELSE <<>>

\* Lines 139-143 for one entry: the sorted pair of its two highest emotions
\* as a one-element list, or the empty list.
EmotionPair(dict) ==
    IF Len(dict) < 2 THEN <<>>
    ELSE LET i == FirstMax(dict)
             rest == SubSeq(dict, 1, i - 1) \o SubSeq(dict, i + 1, Len(dict))
             first == dict[i]
             second == rest[FirstMax(rest)]
         IN  IF second[2] > PairThreshold
             THEN IF Rank(first[1]) < Rank(second[1])
                  THEN <<<<first[1], second[1]>>>>
                  ELSE <<<<second[1], first[1]>>>>
             ELSE <<>>

RECURSIVE EmotionPairs(_)
EmotionPairs(es) ==
    IF es = <<>> THEN <<>>
    ELSE (IF IsNone(Head(es).emotions) THEN <<>> ELSE EmotionPair(Val(Head(es).emotions)))
         \o EmotionPairs(Tail(es))

\* Lines 132-156.
_analyze_emotion_correlations(es) ==
    LET emotion_pairs == EmotionPairs(es)
        most_common == MostCommon(emotion_pairs, TopPairs)
    IN  IF emotion_pairs = <<>> THEN ReturnsNone
        ELSE [kind |-> "emotion_correlations",
              common_pairs |-> [i \in 1..Len(most_common) |->
                                  [emotions |-> most_common[i],
                                   frequency |-> Count(most_common[i], emotion_pairs)]],
              insight |-> most_common[1][1] \o " and " \o most_common[1][2]
                            \o " often appear together"]

\* `if len(quality_sentiments) < 3`
MinQualities == 3

\* The entries that count: a sleep quality that is not None or 0 and a
\* sentiment that is not None.
Rated(es) ==
    SelectSeq(es, LAMBDA e: Truthy(e.sleep_quality) /\ ~IsNone(e.sentiment_score))

\* The keys of quality_sentiments, in first-seen order.
Qualities(es) ==
    LET rated == Rated(es)
    IN  Distinct([i \in 1..Len(rated) |-> Val(rated[i].sleep_quality)])

\* quality_sentiments[q]
QualityScores(es, q) == Scores(SelectSeq(Rated(es), LAMBDA e: Val(e.sleep_quality) = q))

LCM(a, b) == (a * b) \div GCD(a, b)

RECURSIVE LCMOf(_)
LCMOf(ns) == IF ns = <<>> THEN 1 ELSE LCM(Head(ns), LCMOf(Tail(ns)))

RECURSIVE GCDOf(_)
GCDOf(ns) == IF ns = <<>> THEN 0 ELSE GCD(Abs(Head(ns)), GCDOf(Tail(ns)))

\* The averages quality_averages[q], in the order of Qualities, all
\* multiplied by one positive factor that makes them integers without a
\* common divisor: the correlation does not depend on the factor.
ScaledAverages(es) ==
    LET qs == Qualities(es)
        k == LCMOf([i \in 1..Len(qs) |-> Len(QualityScores(es, qs[i]))])
        whole == [i \in 1..Len(qs) |->
                    Total(QualityScores(es, qs[i])) * (k \div Len(QualityScores(es, qs[i])))]
        g == IF GCDOf(whole) = 0 THEN 1 ELSE GCDOf(whole)
    IN  [i \in 1..Len(qs) |-> whole[i] \div g]

\* np.corrcoef(x, y)[0, 1] is cov / sqrt(var_x * var_y) with the three sums
\* below, and nan when a variance is 0.
Correlation(x, y) ==
    [cov |-> Sxy(x, y), var_x |-> Sxx(x), var_y |-> Sxx(y)]

IsNaN(c) == c.var_x = 0 \/ c.var_y = 0

\* correlation > 0.3 and abs(correlation) < 0.3, squared and cleared of the
\* root; both are false for nan.
AboveThreshold(c) == ~IsNaN(c) /\ c.cov > 0 /\ 100 * c.cov * c.cov > 9 * c.var_x * c.var_y

WithinThreshold(c) == ~IsNaN(c) /\ 100 * c.cov * c.cov < 9 * c.var_x * c.var_y

\* Lines 158-192.
_analyze_sleep_quality(es) ==
    LET qualities == Qualities(es)
        correlation == Correlation(qualities, ScaledAverages(es))
    IN  IF Len(qualities) < MinQualities THEN ReturnsNone
        ELSE [kind |-> "sleep_quality_impact",
              correlation |-> correlation,
              insight |->
                IF AboveThreshold(correlation)
                THEN "Better sleep quality correlates with more positive dreams"
                ELSE IF WithinThreshold(correlation)
                THEN "No clear correlation between sleep quality and dream sentiment"
                ELSE "Paradoxically, lower sleep quality shows more positive dreams"]

\* Lines 62-75: the dict literal evaluates the five calls in order; the first
\* that raises ends identify_patterns.
identify_patterns(es) ==
    LET time_of_day == _analyze_time_patterns(es)
    IN  IF time_of_day.kind = "raises" THEN time_of_day
        ELSE [kind |-> "patterns",
              time_of_day |-> time_of_day,
              day_of_week |-> _analyze_day_patterns(es),
              emotion_correlations |-> _analyze_emotion_correlations(es),
              sleep_quality_impact |-> _analyze_sleep_quality(es),
              cyclical_themes |-> _analyze_cyclical_themes(es)]

----------------------------------------------------------------------------
(* The pattern analyses' inputs and their specification *)

\* How many entries a list handed to identify_patterns holds at most.
MaxPatEntries == 3

\* What the next entry is: the hours since the entry before it, its
\* sentiment, its emotions, its sleep quality and its themes.  A day on, a
\* mildly pleasant flying dream after fair sleep; half a day on, a dream that
\* was never analysed; half a day on, a sad and fearful dream after poor
\* sleep; a day on, a pleasant flying dream after good sleep.
PatMoves ==
    {<<24, Some(200), Some(EmotionDict(<<500, 0, 300, 0, 0, 0, 0, 0>>)), Some(3),
       Some(<<"flying">>)>>,
     <<12, None, None, None, None>>,
     <<12, Some(-200), Some(EmotionDict(<<0, 400, 400, 0, 0, 0, 0, 0>>)), Some(1), None>>,
     <<24, Some(400), None, Some(5), Some(<<"flying">>)>>}

AddPatEntry ==
    /\ Len(entries) < MaxPatEntries
    /\ \E m \in PatMoves :
         entries' = Append(entries,
                           DreamEntry(LastDate(entries) + m[1], m[2], m[3], m[5], None, m[4]))
    /\ op' = "none"
    /\ arg' = None
    /\ result' = NoResult
    /\ UNCHANGED <<analyzerVars, predictor, sharedVars>>

\* predictor.identify_patterns(entries)
IdentifyPatterns ==
    /\ op' = "identify_patterns"
    /\ arg' = None
    /\ result' = identify_patterns(entries)
    /\ UNCHANGED <<entries, analyzerVars, predictor, sharedVars>>

NextPat == AddPatEntry \/ IdentifyPatterns

SpecPat == Init /\ [][NextPat]_vars

\* Entries for the sleep-quality analysis alone: one a day, each with a sleep
\* quality (or none) and a sentiment (or none).
SleepQualities == {None, Some(1), Some(3), Some(5)}

SleepSentiments == {None, Some(0), Some(500)}

AddSleepEntry ==
    /\ Len(entries) < MaxPatEntries
    /\ \E q \in SleepQualities, s \in SleepSentiments :
         entries' = Append(entries,
                           DreamEntry(LastDate(entries) + HoursPerDay, s, None, None, None, q))
    /\ op' = "none"
    /\ arg' = None
    /\ result' = NoResult
    /\ UNCHANGED <<analyzerVars, predictor, sharedVars>>

\* predictor._analyze_sleep_quality(entries)
AnalyzeSleepQuality ==
    /\ op' = "_analyze_sleep_quality"
    /\ arg' = None
    /\ result' = _analyze_sleep_quality(entries)
    /\ UNCHANGED <<entries, analyzerVars, predictor, sharedVars>>

NextSleep == AddSleepEntry \/ AnalyzeSleepQuality

SpecSleep == Init /\ [][NextSleep]_vars

----------------------------------------------------------------------------
(* The emotion-pair analysis' inputs and its specification *)

\* How many entries a list handed to _analyze_emotion_correlations holds at
\* most.
MaxPairEntries == 4

\* The emotions column of the next entry, scores in EMOTION_CATEGORIES order:
\* never analysed; joy over fear; fear over joy; a second score of exactly
\* 0.1; sadness level with fear; anger over trust over a faint anticipation;
\* joy, then sadness level with fear.
PairEmotions ==
    {None,
     Some(EmotionDict(<<500, 0, 300, 0, 0, 0, 0, 0>>)),
     Some(EmotionDict(<<300, 0, 500, 0, 0, 0, 0, 0>>)),
     Some(EmotionDict(<<500, 0, 100, 0, 0, 0, 0, 0>>)),
     Some(EmotionDict(<<0, 400, 400, 0, 0, 0, 0, 0>>)),
     Some(EmotionDict(<<0, 0, 0, 600, 0, 0, 200, 101>>)),
     Some(EmotionDict(<<500, 300, 300, 0, 0, 0, 0, 0>>))}

AddPairEntry ==
    /\ Len(entries) < MaxPairEntries
    /\ \E em \in PairEmotions :
         entries' = Append(entries,
                           DreamEntry(LastDate(entries) + HoursPerDay, None, em, None, None, None))
    /\ op' = "none"
    /\ arg' = None
    /\ result' = NoResult
    /\ UNCHANGED <<analyzerVars, predictor, sharedVars>>

\* predictor._analyze_emotion_correlations(entries)
AnalyzeEmotionCorrelations ==
    /\ op' = "_analyze_emotion_correlations"
    /\ arg' = None
    /\ result' = _analyze_emotion_correlations(entries)
    /\ UNCHANGED <<entries, analyzerVars, predictor, sharedVars>>

NextPairs == AddPairEntry \/ AnalyzeEmotionCorrelations

SpecPairs == Init /\ [][NextPairs]_vars

----------------------------------------------------------------------------
(* Claims about the aggregator, checked under SpecAgg *)

Summarized == op = "generate_insights"

\* The entries whose sentiment is present (not None; 0 is present).
PresentSentiments(es) ==
    LET kept == SelectSeq(es, LAMBDA e: ~IsNone(e.sentiment_score))
    IN  [i \in 1..Len(kept) |-> Val(kept[i].sentiment_score)]

DistributionSum(dist) == SumSeq([i \in 1..Len(dist) |-> dist[i][2]])

C2_AvgOverPresentOnly ==
    (Summarized /\ entries # <<>> /\ PresentSentiments(entries) # <<>>) =>
        result.avg_sentiment =
            Some(RoundDiv(SumSeq(PresentSentiments(entries)),
                          Len(PresentSentiments(entries))))

\* C3: for a non-empty list in which no entry has a sentiment,
\* generate_insights does not fail and reports avg_sentiment as undefined,
\* not as a number.
C3_AllAbsentAvgUndefined ==
    (Summarized /\ entries # <<>> /\ PresentSentiments(entries) = <<>>) =>
        /\ result.kind = "insights"
        /\ result.avg_sentiment = None

\* C4 as stated: whenever the summed emotion scores have a nonzero total, the
\* values of emotion_distribution sum to 1.0 (within 1e-6, which for values
\* with three decimals means exactly 1.000).
C4_DistributionSumsToOne ==
    (Summarized /\ entries # <<>>
        /\ EmotionTotal(AllEmotions(<<>>, entries)) > 0) =>
        DistributionSum(result.emotion_distribution) = Milli

\* C4 as amended: with a nonzero total the distribution has one value per
\* emotion seen, each in [0, 1], and the values sum to 1.0 within 0.0005 per
\* emotion (the error of rounding each to three decimals); with a total of 0
\* the distribution is the empty map.
C4_DistributionSumsToOneWithinRounding ==
    (Summarized /\ entries # <<>>) =>
        LET all == AllEmotions(<<>>, entries)
            dist == result.emotion_distribution
        IN  /\ EmotionTotal(all) = 0 => dist = <<>>
            /\ EmotionTotal(all) > 0 =>
                  /\ Len(dist) = Len(all)
                  /\ \A i \in 1..Len(dist) : dist[i][2] >= 0 /\ dist[i][2] <= Milli
                  /\ 2 * Abs(DistributionSum(dist) - Milli) <= Len(dist)

\* Three equal scores: 0.333 + 0.333 + 0.333 = 0.999.
C4_Witness ==
    /\ Summarized /\ entries # <<>>
    /\ EmotionTotal(AllEmotions(<<>>, entries)) > 0
    /\ DistributionSum(result.emotion_distribution) = Milli - 1

----------------------------------------------------------------------------
(* Claims about the trend predictor, checked under SpecPred *)

Predicted == op = "predict_mood_trend"

\* Every entry has a sentiment (a timestamp it always has).
WellFormed(es) == \A i \in 1..Len(es) : ~IsNone(es[i].sentiment_score)

Chronological(es) ==
    \A i, j \in 1..Len(es) : i < j => es[i].dream_date <= es[j].dream_date

StrictlyIncreasing(es) ==
    \A i, j \in 1..Len(es) :
        i < j => Val(es[i].sentiment_score) < Val(es[j].sentiment_score)

\* Exactly 7 well-formed chronological entries with strictly increasing
\* sentiment, passed with the default days_ahead.
SevenIncreasing ==
    /\ Predicted /\ arg = Some(7)
    /\ Len(entries) = 7
    /\ WellFormed(entries) /\ Chronological(entries) /\ StrictlyIncreasing(entries)

\* The last entry is dated a whole day or more after the first.
SpansADay(es) == es[Len(es)].dream_date - es[1].dream_date >= 24

\* C5: with fewer than 7 entries predict_mood_trend returns None, whatever
\* the entries hold and whatever days_ahead is; it raises nothing.
C5_FewerThanSevenReturnsNone ==
    (Predicted /\ Len(entries) < 7) => result = ReturnsNone

\* Six entries, each with a sentiment, and the default days_ahead.
C5_Witness ==
    /\ Predicted /\ arg = Some(7)
    /\ Len(entries) = 6 /\ WellFormed(entries)
    /\ result = ReturnsNone

\* C6 as stated: 7 well-formed chronological entries with strictly increasing
\* sentiment and days_ahead = 7 give a forecast whose trend is "improving".
C6_IncreasingIsImproving ==
    SevenIncreasing => (result.kind = "forecast" /\ result.trend = "improving")

\* C6 as amended: such entries give a forecast; its trend is "improving" when
\* the entries span a whole day or more, and "declining" when all seven lie
\* within 24 hours of the first (every day-offset is 0 and the line is flat).
C6_IncreasingIsImprovingOverDays ==
    SevenIncreasing =>
        /\ result.kind = "forecast"
        /\ SpansADay(entries) => result.trend = "improving"
        /\ ~SpansADay(entries) => result.trend = "declining"

C6_Witness ==
    /\ SevenIncreasing /\ SpansADay(entries)
    /\ result.kind = "forecast" /\ result.trend = "improving"

----------------------------------------------------------------------------
(* Claims about cyclical-theme detection, checked under SpecCyc *)

CyclesAnalyzed == op = "_analyze_cyclical_themes"

\* The calendar days on which `theme` occurs, in date order, one per
\* occurrence.
OccurrenceDays(es, theme) ==
    LET with == SelectSeq(SortByDate(es),
                          LAMBDA e: ~IsNone(e.themes) /\ Count(theme, Val(e.themes)) > 0)
    IN  [i \in 1..Len(with) |-> with[i].dream_date \div 24]

ThemesOf(es) ==
    UNION {{Val(es[i].themes)[k] : k \in 1..Len(Val(es[i].themes))} :
             i \in {j \in 1..Len(es) : ~IsNone(es[j].themes)}}

\* The occurrences are one constant gap of g days apart.
ConstantGap(days, g) == \A i \in 1..(Len(days) - 1) : days[i + 1] - days[i] = g

\* The themes a report lists, a report of None listing none.
Reported(r) ==
    IF r.kind = "cyclical" THEN {r.themes[i] : i \in 1..Len(r.themes)} ELSE {}

\* C7: a theme that occurs on at least 3 dates one constant gap g >= 1 apart
\* is reported with avg_interval_days = g and occurrences = the number of its
\* occurrences; and whatever is reported has at least 3 occurrences and
\* day-gaps whose variance is below half their mean.
C7_ConstantGapIsCyclical ==
    CyclesAnalyzed =>
        /\ \A theme \in ThemesOf(entries) :
             LET days == OccurrenceDays(entries, theme)
             IN  \A g \in 1..10 :
                   (Len(days) >= 3 /\ ConstantGap(days, g)) =>
                       [theme |-> theme, avg_interval_days |-> 10 * g,
                        occurrences |-> Len(days)] \in Reported(result)
        /\ \A r \in Reported(result) :
             LET days == OccurrenceDays(entries, r.theme)
                 n == Len(days) - 1
                 gaps == [i \in 1..n |-> days[i + 1] - days[i]]
                 \* n * mean
                 nmean == SumSeq(gaps)
                 \* n * n * variance
                 nnvar == n * SumSeq([i \in 1..n |-> gaps[i] * gaps[i]]) - nmean * nmean
             IN  /\ r.occurrences = Len(days)
                 /\ Len(days) >= 3
                 /\ 2 * nnvar < n * nmean

\* The spec's example: days 0, 10, 20, 30 give 10.0 and 4.
C7_Witness ==
    /\ CyclesAnalyzed
    /\ OccurrenceDays(entries, "flying") = <<0, 10, 20, 30>>
    /\ [theme |-> "flying", avg_interval_days |-> 100, occurrences |-> 4]
          \in Reported(result)

----------------------------------------------------------------------------
(* Claims about signal extraction, checked under SpecExt *)

\* analyze_dream has returned.
Extracted == op = "analyze_dream" /\ result.kind = "signal"

\* Both estimators answered within [-1, 1].
EstimatorsInRange ==
    /\ estimators.vader \in (-Milli)..Milli
    /\ estimators.textblob \in (-Milli)..Milli

EmotionKeys(emotions) == {emotions[i][1] : i \in 1..Len(emotions)}

EmotionValues(emotions) == {emotions[i][2] : i \in 1..Len(emotions)}

\* The emotion categories of the instance's lexicon.
LexiconCategories ==
    {analyzer.emotion_keywords[i][1] : i \in 1..Len(analyzer.emotion_keywords)}

\* C8: for every text, when both estimators answer in [-1,1], the vector
\* analyze_dream returns has every emotion score in [0,1], its sentiment in
\* [-1,1], and its intensity and its stress in [0,1].
C8_SignalsInRange ==
    (Extracted /\ EstimatorsInRange) =>
        /\ \A v \in EmotionValues(result.emotions) : v \in 0..Milli
        /\ result.sentiment_score \in (-Milli)..Milli
        /\ result.dream_intensity \in 0..Milli
        /\ result.stress_level \in 0..Milli

\* A text was analysed whose stress and one emotion score sit at the upper
\* end 1, another emotion score at the lower end 0 and the sentiment at -1.
C8_Witness ==
    /\ Extracted
    /\ EstimatorsInRange
    /\ ~IsBlank(Text(content))
    /\ result.stress_level = Milli
    /\ result.sentiment_score = -Milli
    /\ {0, Milli} \subseteq EmotionValues(result.emotions)

\* C9: for an empty or whitespace-only text analyze_dream returns the zero
\* vector (sentiment, intensity and stress 0, no theme, the five entity
\* categories empty, every emotion category of the lexicon at 0) without
\* calling the linguistic-analysis capability; a text that is analysed gets
\* the same emotion keys.
C9_BlankTextIsZeroVector ==
    Extracted =>
        /\ EmotionKeys(result.emotions) = LexiconCategories
        /\ Len(result.emotions) = Cardinality(LexiconCategories)
        /\ IsBlank(Text(content)) =>
              /\ result.sentiment_score = 0
              /\ result.dream_intensity = 0
              /\ result.stress_level = 0
              /\ result.themes = <<>>
              /\ result.entities = [people |-> {}, places |-> {}, organizations |-> {},
                                    other |-> {}, symbols |-> {}]
              /\ EmotionValues(result.emotions) = {0}
              /\ nlp_calls = 0

\* A text of whitespace, not the empty text, was analysed while the
\* estimators would have scored it other than 0.
C9_Witness ==
    /\ Extracted
    /\ content # <<>>
    /\ IsBlank(Text(content))
    /\ estimators.vader # 0

----------------------------------------------------------------------------
(* Claims about the recommendation rules, checked under SpecRec *)

\* _generate_recommendations has returned for the insights in arg.
Recommended == op = "_generate_recommendations" /\ result.kind = "recommendations"

\* C11: for insights with an average sentiment below -0.3 (such as -0.5) and
\* the dominant emotion "fear", the recommendations contain the
\* stress-reduction text and the pre-sleep journaling text and do not contain
\* the default "balanced" text.
C11_NegativeFearRecommendations ==
    (/\ Recommended
     /\ Val(Val(arg).avg_sentiment) < -300
     /\ Val(arg).dominant_emotion = "fear")
    => /\ Contains(result.text, "Consider stress-reduction practices before bed.")
       /\ Contains(result.text, "Consider journaling before bed to process anxieties.")
       /\ ~Contains(result.text, "Your dream patterns look balanced.")

\* The rules ran on an average sentiment of -0.5 with "fear" dominant.
C11_Witness ==
    /\ Recommended
    /\ Val(Val(arg).avg_sentiment) = -500
    /\ Val(arg).dominant_emotion = "fear"

----------------------------------------------------------------------------
(* Claims about the insight composer, checked under SpecIns *)

\* generate_personalized_insights has returned for the list in entries.
Composed == op = "generate_personalized_insights" /\ result.kind = "personalized"

\* C12: given fewer than 5 entries, none included, the composer returns the
\* fixed "need more data" message with the three onboarding tips and nothing
\* else: no insights, no recommendations, no stats, whatever the entries'
\* sentiment and stress are.
C12_FewEntriesNeedMoreData ==
    (Composed /\ Len(entries) < 5) =>
        /\ DOMAIN result = {"kind", "message", "tips"}
        /\ result.message =
             "Keep recording your dreams! We need more data to generate personalized insights."
        /\ result.tips = <<"Try to record dreams immediately upon waking",
                           "Include as many details as possible",
                           "Note your sleep quality and mood">>

\* Four entries that would fire the sentiment, stress and nightmare rules
\* were composed.
C12_Witness ==
    /\ Composed
    /\ Len(entries) = 4
    /\ \A i \in 1..4 : /\ entries[i].sentiment_score = Some(-600)
                       /\ entries[i].stress_level = Some(700)

\* The messages of a composed result: its insights, then its recommendations.
Messages == result.insights \o result.recommendations

\* C19: whenever the composer evaluates its rules (5 entries or more), its
\* output is not empty: it is the single default "balanced" message when no
\* rule fired, and holds no default message when a rule fired.
C19_DefaultWhenNoRuleFires ==
    (Composed /\ Len(entries) >= 5) =>
        LET defaults == SelectSeq(Messages, LAMBDA m: Contains(m, "balanced"))
        IN  /\ Messages # <<>>
            /\ Len(defaults) <= 1
            /\ Len(defaults) = 1 => Len(Messages) = 1

----------------------------------------------------------------------------
(* Claims about the create and update flows, checked under SpecApp *)

\* The request recorded in arg had a text that is not blank to analyse.
AnalysesText(request) ==
    /\ ~IsNone(request)
    /\ ~IsNone(Val(request).content)
    /\ ~IsBlank(Val(Val(request).content))

\* C13: when the linguistic-analysis capability fails while a create or an
\* update request analyses a text that is not blank, the failure reaches the
\* caller, no signal vector is returned, and the table holds the rows it
\* held before the request.
C13_FailedAnalysisCommitsNothing ==
    [][(/\ op' \in {"create_entry", "update_entry"}
        /\ AnalysesText(arg')
        /\ ~Val(arg').nlp_up
        /\ (op' = "update_entry" => Val(arg').entry_id \in DOMAIN store))
       => /\ result'.kind = "raises"
          /\ store' = store]_vars

\* An update of a stored row to another text failed in the analysis.
C13_Witness ==
    /\ op = "update_entry"
    /\ result.kind = "raises"
    /\ AnalysesText(arg)
    /\ Val(arg).entry_id \in DOMAIN store
    /\ store[Val(arg).entry_id].content # Val(Val(arg).content)

----------------------------------------------------------------------------
(* Claims about calls that share an instance, checked under SpecConc *)

\* Two forecasts say the same: the same days, trend and confidence, and
\* predictions of the same value (fractions compared cross-multiplied, the
\* denominators first cleared of their common divisor).
SameForecast(a, b) ==
    LET g == GCD(a.denominator, b.denominator)
    IN  /\ a.kind = b.kind
        /\ a.days = b.days
        /\ a.trend = b.trend
        /\ a.confidence = b.confidence
        /\ \A i \in 1..Len(a.predictions) :
             a.predictions[i] * (b.denominator \div g)
                = b.predictions[i] * (a.denominator \div g)

\* C14: calls of predict_mood_trend that run interleaved on one shared
\* DreamPredictor each return what they return when run alone.
C14_InterleavedCallsAreIndependent ==
    \A t \in Threads :
        calls[t].pc = "done" =>
            SameForecast(calls[t].result,
                         predict_mood_trend(calls[t].entries, calls[t].days_ahead))

----------------------------------------------------------------------------
(* Claims about the dominant emotion, checked under SpecDom *)

\* The score of a category in a stored map (0 when the map lacks it), and
\* its sum over the entries that have a map.
ScoreIn(dict, category) ==
    SumSeq([i \in 1..Len(dict) |-> IF dict[i][1] = category THEN dict[i][2] ELSE 0])

CategoryTotal(es, category) ==
    SumSeq([i \in 1..Len(es) |->
              IF IsNone(es[i].emotions) THEN 0 ELSE ScoreIn(Val(es[i].emotions), category)])

----------------------------------------------------------------------------
(* Claims about the stress trend, checked under SpecStress *)

\* The stress values that are not null, in input order.
NonNullStress(es) ==
    LET kept == SelectSeq(es, LAMBDA e: e.stress_level # None)
    IN  [i \in 1..Len(kept) |-> kept[i].stress_level[1]]

\* mean(a) > f * mean(b) and mean(a) < f * mean(b) for a factor f given in
\* tenths and non-empty a and b.
MeanAbove(a, b, tenths) == 10 * SumSeq(a) * Len(b) > tenths * SumSeq(b) * Len(a)

MeanBelow(a, b, tenths) == 10 * SumSeq(a) * Len(b) < tenths * SumSeq(b) * Len(a)

----------------------------------------------------------------------------
(* Claims about the pattern analyses, checked under SpecPat *)

\* A sub-analysis returned a report or None.
ReportOrNone(r) == r.kind # "raises"

\* C17: for every list of entries, the empty list and lists with entries
\* without sentiment included, none of the five sub-analyses raises, so
\* identify_patterns returns a report with its five keys, each a report
\* or None.
C17_PatternsNeverRaise ==
    op = "identify_patterns" =>
        /\ result.kind = "patterns"
        /\ {"time_of_day", "day_of_week", "emotion_correlations",
            "sleep_quality_impact", "cyclical_themes"} \subseteq DOMAIN result
        /\ ReportOrNone(_analyze_time_patterns(entries))
        /\ ReportOrNone(_analyze_day_patterns(entries))
        /\ ReportOrNone(_analyze_emotion_correlations(entries))
        /\ ReportOrNone(_analyze_sleep_quality(entries))
        /\ ReportOrNone(_analyze_cyclical_themes(entries))

----------------------------------------------------------------------------
(* Claims about predict_mood_trend on lists with missing fields *)

\* The entries that have both a timestamp and a sentiment.
Complete(es) == SelectSeq(es, LAMBDA e: HasDate(e) /\ ~IsNone(e.sentiment_score))

\* C18: when predict_mood_trend is given at least 7 entries of which fewer
\* than 3 have both a timestamp and a sentiment, it returns None and does not
\* raise, also when some entries have no timestamp; and a failure inside the
\* fit-and-predict block returns None too.
C18_TooFewPointsReturnsNone ==
    /\ (Predicted /\ Len(entries) >= MinEntries /\ Len(Complete(entries)) < MinPoints)
          => result = ReturnsNone
    /\ (Predicted /\ Len(entries) >= MinEntries /\ ~Dateless(entries)
          /\ Len(Complete(entries)) >= MinPoints /\ Val(arg) < 1)
          => result = ReturnsNone

\* The date of the earliest entry of a non-empty list.
EarliestDate(es) ==
    CHOOSE t \in {es[i].dream_date : i \in 1..Len(es)} :
        \A i \in 1..Len(es) : t <= es[i].dream_date

\* The date of the latest entry that has a sentiment.
LatestQualifyingDate(es) ==
    CHOOSE t \in {es[i].dream_date : i \in {j \in 1..Len(es) : ~IsNone(es[j].sentiment_score)}} :
        \A i \in 1..Len(es) : ~IsNone(es[i].sentiment_score) => es[i].dream_date <= t

\* C20: when predict_mood_trend returns a forecast, offsets are measured from
\* the date of the earliest entry whatever the order of the list, the
\* returned days are last_offset + 1, ..., last_offset + days_ahead with
\* last_offset the offset of the latest qualifying entry, and there are
\* days_ahead predictions.
C20_DaysFollowLatestOffset ==
    (Predicted /\ result.kind = "forecast") =>
        LET last_offset == DeltaDays(LatestQualifyingDate(entries), EarliestDate(entries))
        IN  /\ result.days = [i \in 1..Val(arg) |-> last_offset + i]
            /\ Len(result.predictions) = Val(arg)

----------------------------------------------------------------------------
(* Claims about the sleep-quality report, checked under SpecSleep *)

\* The distinct sleep-quality ratings that come with a sentiment.
RatingsWithData(es) ==
    {Val(es[i].sleep_quality) :
        i \in {j \in 1..Len(es) : es[j].sleep_quality # None /\ Val(es[j].sleep_quality) # 0
                                    /\ es[j].sentiment_score # None}}

\* r > 3/10, |r| < 3/10 and r <= -3/10 for r = cov / sqrt(var_x * var_y), a
\* number only when both variances are positive.
IsNumber(c) == c.var_x > 0 /\ c.var_y > 0

RAbove(c) == IsNumber(c) /\ c.cov > 0 /\ 100 * c.cov * c.cov > 9 * c.var_x * c.var_y

RWithin(c) == IsNumber(c) /\ 100 * c.cov * c.cov < 9 * c.var_x * c.var_y

RAtMostMinus(c) == IsNumber(c) /\ c.cov < 0 /\ 100 * c.cov * c.cov >= 9 * c.var_x * c.var_y

\* C21: with at least 3 distinct rated qualities the report says positively
\* correlated when r > 0.3, no clear correlation when |r| < 0.3, and gives
\* the paradoxical text when r <= -0.3 and for no other r; with fewer than 3
\* the report is None.
C21_CorrelationClasses ==
    op = "_analyze_sleep_quality" =>
        IF Cardinality(RatingsWithData(entries)) < 3 THEN result = ReturnsNone
        ELSE /\ result.kind = "sleep_quality_impact"
             /\ RAbove(result.correlation) =>
                  result.insight = "Better sleep quality correlates with more positive dreams"
             /\ RWithin(result.correlation) =>
                  result.insight = "No clear correlation between sleep quality and dream sentiment"
             /\ (result.insight = "Paradoxically, lower sleep quality shows more positive dreams")
                  <=> RAtMostMinus(result.correlation)

----------------------------------------------------------------------------
(* Claims about the composer's frequency and stress rules *)

\* The whole days between the earliest and the latest entry, at least 1.
TrueSpan(es) ==
    LET dates == {es[i].dream_date : i \in 1..Len(es)}
        first == CHOOSE t \in dates : \A u \in dates : t <= u
        last == CHOOSE t \in dates : \A u \in dates : u <= t
    IN  IF (last - first) \div 24 < 1 THEN 1 ELSE (last - first) \div 24

Says(message) == \E i \in 1..Len(result.insights) : result.insights[i] = message

Recommends(message) ==
    \E i \in 1..Len(result.recommendations) : result.recommendations[i] = message

\* C22: frequency = entries / max(span in days, 1) * 7 with the span between
\* the earliest and the latest entry whatever the order of the list; the
\* low-frequency insight appears exactly when frequency < 2 and the praise
\* exactly when frequency > 5.
C22_FrequencyBySpan ==
    (Composed /\ Len(entries) >= 5) =>
        /\ Says("You're recording dreams infrequently")
              <=> 7 * Len(entries) < 2 * TrueSpan(entries)
        /\ Says("Excellent dream recall! You're recording frequently")
              <=> 7 * Len(entries) > 5 * TrueSpan(entries)

\* The stress values of the (at most 7) latest entries that have one.
RECURSIVE LatestFirst(_)
LatestFirst(es) ==
    IF es = <<>> THEN <<>>
    ELSE LET k == CHOOSE i \in 1..Len(es) :
                    \A j \in 1..Len(es) :
                        \/ es[j].dream_date < es[i].dream_date
                        \/ (es[j].dream_date = es[i].dream_date /\ j <= i)
         IN  <<es[k]>> \o LatestFirst(SubSeq(es, 1, k - 1) \o SubSeq(es, k + 1, Len(es)))

RecentStress(es) ==
    LET latest == LatestFirst(es)
        recent == SubSeq(latest, 1, IF Len(latest) < 7 THEN Len(latest) ELSE 7)
        valued == SelectSeq(recent, LAMBDA e: e.stress_level # None)
    IN  [i \in 1..Len(valued) |-> valued[i].stress_level[1]]

\* C23: with 5 or more entries the high-stress insight and the relaxation
\* and screen-time recommendations appear exactly when the mean stress of
\* the last 7 entries in date order, taken over those that have a stress
\* value, is above 0.6.
C23_HighStressByMeanOfValued ==
    (Composed /\ Len(entries) >= 5) =>
        LET stress == RecentStress(entries)
            high == stress # <<>> /\ SumSeq(stress) > 600 * Len(stress)
        IN  /\ Says("High stress indicators detected in your dreams") <=> high
            /\ Recommends("Practice relaxation exercises before bed") <=> high
            /\ Recommends("Reduce screen time in the evening") <=> high

----------------------------------------------------------------------------
(* Claims about the extractor's symbols, emotions, stress and themes *)

\* The lower-cased nouns of a text that are no stop words and longer than 3
\* characters, in text order, each once.
DistinctNouns(text) ==
    LET doc == nlp(text)
        nouns == SelectSeq(doc, LAMBDA t: is_noun(t) /\ ~is_stop(t) /\ Len(t) > 3)
    IN  Distinct([i \in 1..Len(nouns) |-> Lower(nouns[i])])

\* C24: symbols holds the first 10 distinct qualifying nouns of the text:
\* exactly 10 when the text has at least 10 distinct ones, all of them when
\* it has fewer.
C24_SymbolsAreFirstTenDistinct ==
    (Extracted /\ ~IsBlank(Text(content))) =>
        LET distinct == DistinctNouns(Text(content))
            n == IF Len(distinct) < 10 THEN Len(distinct) ELSE 10
        IN  /\ result.entities.symbols = {distinct[i] : i \in 1..n}
            /\ Cardinality(result.entities.symbols) = n

\* The keywords of a list that occur in a lower-cased text.
Occurring(keywords, lowered) ==
    {k \in 1..Len(keywords) : Contains(lowered, keywords[k])}

\* How often a keyword occurs in a lower-cased text.
Occurrences(keyword, lowered) ==
    Cardinality({i \in 1..(Len(lowered) - Len(keyword) + 1) :
                   SubSeq(lowered, i, i + Len(keyword) - 1) = keyword})

\* The tokens that are neither stop words nor punctuation, at least 1.
WordCount(text) ==
    LET n == Len(SelectSeq(nlp(text), LAMBDA t: ~is_stop(t) /\ ~is_punct(t)))
    IN  IF n < 1 THEN 1 ELSE n

\* min(n / d, 1.0) rounded to 3 decimals, in thousandths, for d > 0.
CappedRatio(n, d) == IF n >= d THEN 1000 ELSE RoundDiv(1000 * n, d)

AnalysedText == Extracted /\ ~IsBlank(Text(content))

\* C25: for every non-empty text the emotion map has every category of the
\* lexicon, and each score is min(matches / (word_count * 0.1), 1.0) rounded
\* to 3 decimals, a keyword counting once however often it occurs.
C25_EmotionScoreFormula ==
    AnalysedText =>
        LET lowered == Lower(Text(content))
            word_count == WordCount(Text(content))
        IN  /\ Len(result.emotions) = Len(EMOTION_KEYWORDS)
            /\ \A c \in 1..Len(EMOTION_KEYWORDS) :
                 /\ result.emotions[c][1] = EMOTION_KEYWORDS[c][1]
                 /\ result.emotions[c][2] =
                      CappedRatio(10 * Cardinality(Occurring(EMOTION_KEYWORDS[c][2], lowered)),
                                  word_count)

\* A text was analysed in which a keyword occurs more than once and its
\* category scores strictly between 0 and 1.
C25_Witness ==
    /\ AnalysedText
    /\ LET lowered == Lower(Text(content))
       IN  \E c \in 1..Len(EMOTION_KEYWORDS) :
             /\ result.emotions[c][2] > 0
             /\ result.emotions[c][2] < 1000
             /\ \E k \in 1..Len(EMOTION_KEYWORDS[c][2]) :
                  Occurrences(EMOTION_KEYWORDS[c][2][k], lowered) > 1

ChaseExample == "I was being chased and felt trapped, screaming"

\* C26: for every non-empty text stress is
\* min(0.6 * (stress_matches / 5) + 0.4 * max(0, -sentiment), 1.0) rounded to
\* 3 decimals, each cue counting once and the sentiment being the one
\* reported; a text containing the chase example has at least 3 matches and
\* a stress of at least 0.36.
C26_StressFormula ==
    AnalysedText =>
        LET lowered == Lower(Text(content))
            stress_matches == Cardinality(Occurring(STRESS_KEYWORDS, lowered))
            negative == IF result.sentiment_score < 0 THEN -result.sentiment_score ELSE 0
        IN  /\ result.stress_level = CappedRatio(600 * stress_matches + 2 * negative, 5000)
            /\ Contains(Text(content), ChaseExample) =>
                  (stress_matches >= 3 /\ result.stress_level >= 360)

\* The chase example was analysed with a negative and with a positive
\* sentiment, and a text with a repeated cue was analysed, the stress
\* staying below its cap.
C26_Witness ==
    /\ AnalysedText
    /\ result.stress_level < 1000
    /\ \/ Contains(Text(content), ChaseExample) /\ result.sentiment_score < 0
       \/ /\ result.sentiment_score > 0
          /\ LET lowered == Lower(Text(content))
             IN  \E k \in 1..Len(STRESS_KEYWORDS) :
                   Occurrences(STRESS_KEYWORDS[k], lowered) > 1

FlyingExample == "I was so happy and joyful flying over the ocean, amazing!"

\* Where a theme name stands in the declaration order of the 12 themes.
ThemeIndex(name) == CHOOSE c \in 1..Len(COMMON_THEMES) : COMMON_THEMES[c][1] = name

HasTheme(name) == \E j \in 1..Len(result.themes) : result.themes[j] = name

\* C27: for every non-empty text a theme is in the output exactly when one
\* of its keywords occurs in the lower-cased text; the names stand in
\* declaration order, none twice; the flying example has both "flying" and
\* "water".
C27_ThemesByKeyword ==
    AnalysedText =>
        LET lowered == Lower(Text(content))
        IN  /\ \A c \in 1..Len(COMMON_THEMES) :
                 HasTheme(COMMON_THEMES[c][1])
                    <=> Occurring(COMMON_THEMES[c][2], lowered) # {}
            /\ \A j \in 1..Len(result.themes) :
                 \E c \in 1..Len(COMMON_THEMES) : COMMON_THEMES[c][1] = result.themes[j]
            /\ \A j, k \in 1..Len(result.themes) :
                 j < k => ThemeIndex(result.themes[j]) < ThemeIndex(result.themes[k])
            /\ Contains(Text(content), FlyingExample) =>
                 (HasTheme("flying") /\ HasTheme("water"))

\* The flying example was analysed on its own: its themes are flying and
\* water, water by its second keyword.
C27_Witness ==
    /\ AnalysedText
    /\ Text(content) = FlyingExample \o " "
    /\ result.themes = <<"flying", "water">>

----------------------------------------------------------------------------
(* Claims about recurring_themes, checked under SpecThemes *)

\* Every theme of every entry, in input order.
ThemeOccurrences(es) ==
    LET with == SelectSeq(es, LAMBDA e: e.themes # None)
    IN  [i \in 1..Len(with) |-> with[i].themes[1]]

\* How often a theme occurs across the entries, and where it occurs first.
TimesSeen(es, theme) ==
    LET lists == ThemeOccurrences(es)
    IN  SumSeq([i \in 1..Len(lists) |->
                  Cardinality({j \in 1..Len(lists[i]) : lists[i][j] = theme})])

FirstSeen(es, theme) ==
    LET lists == ThemeOccurrences(es)
        i == CHOOSE i \in 1..Len(lists) :
                /\ \E j \in 1..Len(lists[i]) : lists[i][j] = theme
                /\ \A h \in 1..(i - 1) : \A j \in 1..Len(lists[h]) : lists[h][j] # theme
    IN  <<i, CHOOSE j \in 1..Len(lists[i]) :
                /\ lists[i][j] = theme
                /\ \A h \in 1..(j - 1) : lists[i][h] # theme>>

Earlier(a, b) == a[1] < b[1] \/ (a[1] = b[1] /\ a[2] < b[2])

ThemesSeen(es) ==
    LET lists == ThemeOccurrences(es)
    IN  UNION {{lists[i][j] : j \in 1..Len(lists[i])} : i \in 1..Len(lists)}

\* C28: for a non-empty list of entries recurring_themes holds at most 5
\* distinct themes, by decreasing number of occurrences and, for equal
\* numbers, by first occurrence; no theme left out occurs more often than a
\* listed one; the list is empty when no entry has a theme.
C28_RecurringThemesMostFrequent ==
    (Summarized /\ entries # <<>>) =>
        LET themes == result.recurring_themes
            seen == ThemesSeen(entries)
            listed == {themes[j] : j \in 1..Len(themes)}
        IN  /\ Len(themes) = (IF Cardinality(seen) < 5 THEN Cardinality(seen) ELSE 5)
            /\ listed \subseteq seen
            /\ \A j, k \in 1..Len(themes) :
                 j < k =>
                    \/ TimesSeen(entries, themes[j]) > TimesSeen(entries, themes[k])
                    \/ /\ TimesSeen(entries, themes[j]) = TimesSeen(entries, themes[k])
                       /\ Earlier(FirstSeen(entries, themes[j]), FirstSeen(entries, themes[k]))
            /\ \A t \in seen \ listed : \A u \in listed :
                 TimesSeen(entries, t) <= TimesSeen(entries, u)
            /\ (seen = {}) => themes = <<>>

\* Six themes were seen in three entries; the most frequent was not seen
\* first, and one theme was left out.
C28_Witness ==
    /\ Summarized
    /\ Len(entries) = 3
    /\ Cardinality(ThemesSeen(entries)) = 6
    /\ Len(result.recurring_themes) = 5
    /\ FirstSeen(entries, result.recurring_themes[1]) # <<1, 1>>

----------------------------------------------------------------------------
(* Claims about the emotion pairs, checked under SpecPairs *)

ScoreOf(dict, name) == dict[CHOOSE i \in 1..Len(dict) : dict[i][1] = name][2]

NamesOf(dict) == {dict[i][1] : i \in 1..Len(dict)}

\* The pairs, names in alphabetical order, that are an entry's two
\* highest-scoring emotions with the lower of the two scores above 0.1; more
\* than one pair only where scores are level.
TopPairsOf(e) ==
    IF e.emotions = None THEN {}
    ELSE LET dict == e.emotions[1]
             above == {n \in NamesOf(dict) : ScoreOf(dict, n) > 100}
         IN  {p \in above \X above :
                /\ Rank(p[1]) < Rank(p[2])
                /\ \A n \in above \ {p[1], p[2]} :
                     /\ ScoreOf(dict, n) <= ScoreOf(dict, p[1])
                     /\ ScoreOf(dict, n) <= ScoreOf(dict, p[2])}

\* In how many entries the pair is the only candidate, and in how many it is
\* a candidate.
SurelyCounted(es, p) == Cardinality({i \in 1..Len(es) : TopPairsOf(es[i]) = {p}})

PossiblyCounted(es, p) == Cardinality({i \in 1..Len(es) : p \in TopPairsOf(es[i])})

PairsAnalysed == op = "_analyze_emotion_correlations"

\* C29: the emotion-pair report is None exactly when no entry has two
\* highest emotions with the second score above 0.1; otherwise it lists at
\* most 3 distinct pairs, each with its names sorted and with the number of
\* entries whose two highest emotions it is, whichever of the two scores
\* higher, by decreasing frequency, and no pair left out is more frequent
\* than a listed one.
C29_PairsSortedCountedTopThree ==
    PairsAnalysed =>
        LET contributing == {i \in 1..Len(entries) : TopPairsOf(entries[i]) # {}}
        IN  IF contributing = {} THEN result = ReturnsNone
            ELSE /\ result.kind = "emotion_correlations"
                 /\ LET pairs == result.common_pairs
                        listed == {pairs[k].emotions : k \in 1..Len(pairs)}
                        all == UNION {TopPairsOf(entries[i]) : i \in contributing}
                    IN  /\ Len(pairs) \in 1..3
                        /\ Cardinality(listed) = Len(pairs)
                        /\ \A k \in 1..Len(pairs) :
                             /\ Rank(pairs[k].emotions[1]) < Rank(pairs[k].emotions[2])
                             /\ pairs[k].frequency >= 1
                             /\ pairs[k].frequency >= SurelyCounted(entries, pairs[k].emotions)
                             /\ pairs[k].frequency <= PossiblyCounted(entries, pairs[k].emotions)
                        /\ \A j, k \in 1..Len(pairs) :
                             j < k => pairs[j].frequency >= pairs[k].frequency
                        /\ \A p \in all \ listed :
                             \/ SurelyCounted(entries, p) = 0
                             \/ /\ Len(pairs) = 3
                                /\ SurelyCounted(entries, p) <= pairs[3].frequency

\* Joy over fear in one entry and fear over joy in another were counted as
\* the one pair (fear, joy), while an entry whose second score is exactly 0.1
\* was not counted.
C29_Witness ==
    /\ PairsAnalysed
    /\ result # ReturnsNone
    /\ result.common_pairs[1] = [emotions |-> <<"fear", "joy">>, frequency |-> 2]
    /\ \E i, j, k \in 1..Len(entries) :
         /\ entries[i].emotions = Some(EmotionDict(<<500, 0, 300, 0, 0, 0, 0, 0>>))
         /\ entries[j].emotions = Some(EmotionDict(<<300, 0, 500, 0, 0, 0, 0, 0>>))
         /\ entries[k].emotions = Some(EmotionDict(<<500, 0, 100, 0, 0, 0, 0, 0>>))

----------------------------------------------------------------------------
(* Claims about the stored rows, checked under SpecStore *)

\* The six analysis columns of a row.
SignalFields(row) ==
    [sentiment_score |-> row.sentiment_score,
     emotions |-> row.emotions,
     entities |-> row.entities,
     themes |-> row.themes,
     dream_intensity |-> row.dream_intensity,
     stress_level |-> row.stress_level]

\* The six results of one analysis of a text.
Analysed(text) == SignalFields(analyze_dream(analyzer, text, Estimates(text)))

StoredIds == {i \in DOMAIN store : store[i] # Deleted}

\* The request just served was an update, without content, of a stored row.
UpdatedWithoutContent ==
    /\ op' = "update_entry"
    /\ result'.kind = "entry"
    /\ IsNone(Val(arg').body.content)

\* C30: after any sequence of create, update and delete requests every
\* stored row's sentiment, emotions, entities, themes, intensity and stress
\* are those of analyze_dream applied to the row's current content; and an
\* update that carries no content leaves the row's six fields and its
\* content as they were.
C30_StoredFieldsMatchContent ==
    /\ [](\A i \in StoredIds : SignalFields(store[i]) = Analysed(store[i].content))
    /\ [][UpdatedWithoutContent =>
            LET id == Val(arg').entry_id
            IN  /\ SignalFields(store'[id]) = SignalFields(store[id])
                /\ store'[id].content = store[id].content]_vars

\* A stored row that holds a dream was given a title by an update without
\* content, after the row before it had been deleted.
C30_Witness ==
    /\ op = "update_entry"
    /\ result.kind = "entry"
    /\ Val(arg).body = Body(None, Some("Night"))
    /\ Len(store) = 2
    /\ store[1] = Deleted
    /\ store[2].content = "Happy Anna"
    /\ store[2].title = Some("Night")

====
